---- MODULE Spec2Model ----
(***************************************************************************)
(* A model of the policy renderers of the repository: the iptables,        *)
(* Juniper, Cisco, NSX-V and Palo Alto generators.                         *)
(*                                                                         *)
(* A renderer is constructed from a policy (the constructor runs           *)
(* _TranslatePolicy) and rendered with str().  The policy objects are      *)
(* shared by reference between the parser's result and every renderer      *)
(* built from it, so the policy is part of the state.                      *)
(*                                                                         *)
(* Text is modelled as a sequence of lines, a line as a record of its      *)
(* parts; a string of the program is a TLA+ string, never taken apart.     *)
(***************************************************************************)
EXTENDS Integers, Sequences, FiniteSets, TLC

VARIABLES
    policy,         \* the PolicyIR: a sequence of [header, terms]
    policy0,        \* the PolicyIR as the parser built it (history)
    renderers,      \* the renderer instances constructed so far
    service_map,    \* paloaltofw.Service.service_map, a class attribute
    reject_action,  \* iptables Term._ACTION_TABLE['reject'], a class attribute
    mp_in,          \* arguments of Juniper Term._MinimizePrefixes
    mp_out,         \* its result
    gp_in,          \* argument of iptables Term._GeneratePortStatement
    gp_out,         \* its result
    tm_in,          \* arguments of the constructor of an iptables Term
    tm_out,         \* the Term object and what its str() calls returned
    ctl_in,         \* arguments of iptables Term._CheckTermLength
    ctl_out,        \* its result
    cfg,            \* a Juniper Config object and the Append calls made on it
    fl              \* the address lists of a Palo Alto term and their flows

vars == <<policy, policy0, renderers, service_map, reject_action,
          mp_in, mp_out, gp_in, gp_out, tm_in, tm_out, ctl_in, ctl_out, cfg, fl>>

worldVars == <<policy, policy0, renderers, service_map, reject_action>>
mpVars == <<mp_in, mp_out>>
gpVars == <<gp_in, gp_out>>
tmVars == <<tm_in, tm_out>>
ctlVars == <<ctl_in, ctl_out>>

----------------------------------------------------------------------------
(* Bounds of the model.                                                    *)

MaxRenderers == 2      \* renderer instances constructed in one process
MaxRenders == 2        \* str() calls on one instance
MaxPortRanges == 8     \* port ranges handed to _GeneratePortStatement
MaxPrefixes == 2       \* prefixes in each list handed to _MinimizePrefixes

(* Values the environment supplies.                                        *)
Today == 20            \* datetime.date.today(), in days
EXP_INFO == 2          \* exp_info, in weeks

----------------------------------------------------------------------------
(* Generic helpers.                                                        *)

Contains(s, x) == \E i \in 1..Len(s) : s[i] = x

SeqToSet(s) == {s[i] : i \in 1..Len(s)}

RECURSIVE Flatten(_)
Flatten(ss) == IF ss = <<>> THEN <<>> ELSE Head(ss) \o Flatten(Tail(ss))

SeqsUpTo(S, n) == UNION {[1..k -> S] : k \in 0..n}

NoError == ""

----------------------------------------------------------------------------
(* The PolicyIR (lib/policy.py is the parser's; only the fields the        *)
(* renderers read are kept).  An empty sequence or "" is an unset field,   *)
(* expiration 0 is "no expiration".                                        *)

MkTerm(name, action) ==
    [name |-> name, action |-> <<action>>, comment |-> <<>>, owner |-> "",
     option |-> <<>>, logging |-> <<>>, expiration |-> 0, protocol |-> <<>>,
     platform |-> <<>>, platform_exclude |-> <<>>, ether_type |-> <<>>,
     verbatim |-> <<>>, destination_port |-> <<>>, pan_application |-> <<>>,
     source_port |-> <<>>, icmp_type |-> <<>>,
     source_address |-> <<>>, source_address_exclude |-> <<>>,
     destination_address |-> <<>>, destination_address_exclude |-> <<>>]

(* header.target maps a platform to the words that follow it on the        *)
(* header's target line: FilterOptions(platform); FilterName(platform) is  *)
(* the first of them.                                                      *)
MkHeader(chain, fname, af) ==
    [platforms |-> {"iptables", "juniper", "cisco", "nsxv", "paloalto"},
     target |-> [iptables |-> <<chain, af>>,
                 juniper  |-> <<fname, af>>,
                 cisco    |-> <<fname, IF af = "inet6" THEN "inet6" ELSE "extended">>,
                 nsxv     |-> <<af>>,
                 paloalto |-> <<"from-zone", "trust", "to-zone", "untrust", af>>],
     comment |-> <<>>]

FilterOptions(header, platform) == header.target[platform]

FilterName(header, platform) == header.target[platform][1]

MkFilter(header, terms) == [header |-> header, terms |-> terms]

Expired(term) == term.expiration # 0 /\ term.expiration <= Today

----------------------------------------------------------------------------
(* iptables: Term._GeneratePortStatement (lib/iptables.py).                *)
(* A port range is a pair <<low, high>>.  An entry of norm_ports is the    *)
(* text of one port, <<p>> for str(p), or of one range, <<a, b>> for       *)
(* 'a:b'.  A port statement is [multi, direction, ports]: '--Xport P'      *)
(* when multi is FALSE, '-m multiport --Xports P1,P2,...' otherwise.       *)

max_ports == 14

NormPort(port) == IF port[1] = port[2] THEN <<port[1]>> ELSE <<port[1], port[2]>>

PortCount(port) == IF port[1] = port[2] THEN 1 ELSE 2

MultiportStatement(direction, norm_ports) ==
    [multi |-> TRUE, direction |-> direction, ports |-> norm_ports]

SinglePortStatement(direction, norm_port) ==
    [multi |-> FALSE, direction |-> direction, ports |-> <<norm_port>>]

(* The for loop over ports; st is [norm_ports, portstrings, count].        *)
RECURSIVE GeneratePortLoop(_, _, _)
GeneratePortLoop(ports, direction, st) ==
    IF ports = <<>> THEN st
    ELSE LET port == Head(ports)
             norm == Append(st.norm_ports, NormPort(port))
             count == st.count + PortCount(port)
         IN IF count >= max_ports
            THEN GeneratePortLoop(Tail(ports), direction,
                     [norm_ports |-> <<>>,
                      portstrings |-> Append(st.portstrings,
                                             MultiportStatement(direction, norm)),
                      count |-> 0])
            ELSE GeneratePortLoop(Tail(ports), direction,
                     [norm_ports |-> norm, portstrings |-> st.portstrings,
                      count |-> count])

(* A plausible slip: the ports left after the loop are emitted only when   *)
(* exactly one is left.                                                    *)
GeneratePortStatementDropsRest(ports, direction) ==
    IF ports = <<>> THEN <<>>
    ELSE LET st == GeneratePortLoop(ports, direction,
                       [norm_ports |-> <<>>, portstrings |-> <<>>, count |-> 0])
         IN IF Len(st.norm_ports) = 1
            THEN Append(st.portstrings,
                        SinglePortStatement(direction, st.norm_ports[1]))
            ELSE st.portstrings

GeneratePortStatement(ports, direction) ==
    IF ports = <<>> THEN <<>>
    ELSE LET st == GeneratePortLoop(ports, direction,
                       [norm_ports |-> <<>>, portstrings |-> <<>>, count |-> 0])
         IN IF Len(st.norm_ports) = 1
            THEN Append(st.portstrings,
                        SinglePortStatement(direction, st.norm_ports[1]))
            ELSE Append(st.portstrings,
                        MultiportStatement(direction, st.norm_ports))

(* What iptables matches for the text of a statement: 'p' is port p and    *)
(* 'a:b' is every port from a to b.                                        *)
NormPortMatches(np) == IF Len(np) = 1 THEN {np[1]} ELSE np[1]..np[2]

StatementMatches(stmt) ==
    UNION {NormPortMatches(stmt.ports[i]) : i \in 1..Len(stmt.ports)}

RangesMatch(ports) == UNION {ports[i][1]..ports[i][2] : i \in 1..Len(ports)}

(* The port ranges the specification of the port consolidation draws from. *)
PortRanges == {<<1, 1>>, <<2, 3>>, <<5, 5>>}

----------------------------------------------------------------------------
(* Addresses (lib/nacaddr.py is not among the sources).                    *)
(* A prefix is <<network, prefixlen>> over addresses of AddressBits bits;  *)
(* 'a in b' of two networks is what ipaddr computes: the network address   *)
(* of a is not below that of b and its broadcast address not above.        *)

AddressBits == 2

RECURSIVE Pow2(_)
Pow2(n) == IF n = 0 THEN 1 ELSE 2 * Pow2(n - 1)

Network(prefix) == prefix[1]
Broadcast(prefix) == prefix[1] + Pow2(AddressBits - prefix[2]) - 1

PrefixIn(a, b) == Network(b) <= Network(a) /\ Broadcast(b) >= Broadcast(a)

Prefixes ==
    {<<n, l>> \in (0..(Pow2(AddressBits) - 1)) \X (0..AddressBits) :
        n % Pow2(AddressBits - l) = 0}

PrefixAddresses(prefix) == Network(prefix)..Broadcast(prefix)

AddressesOf(prefixes) ==
    UNION {PrefixAddresses(prefixes[k]) : k \in 1..Len(prefixes)}

(* The prefixes that lie in a set of addresses and in no larger prefix     *)
(* that lies in it: the fewest prefixes that cover the set.                *)
CoveringPrefixes(addresses) ==
    {p \in Prefixes :
        /\ PrefixAddresses(p) \subseteq addresses
        /\ \A q \in Prefixes :
              PrefixAddresses(q) \subseteq addresses /\ PrefixIn(p, q) => q = p}

(* Prefixes that do not overlap, in the order of their addresses.          *)
RECURSIVE ByNetwork(_)
ByNetwork(prefixes) ==
    IF prefixes = {} THEN <<>>
    ELSE LET first == CHOOSE p \in prefixes :
                          \A q \in prefixes : Network(p) <= Network(q)
         IN <<first>> \o ByNetwork(prefixes \ {first})

(* nacaddr.ExcludeAddrs: every exclude prefix is subtracted from every     *)
(* include prefix; what is left of an include prefix is listed as the      *)
(* fewest prefixes that cover it.                                          *)
ExcludeAddrs(include, exclude) ==
    Flatten([k \in 1..Len(include) |->
                ByNetwork(CoveringPrefixes(PrefixAddresses(include[k])
                                           \ AddressesOf(exclude)))])

----------------------------------------------------------------------------
(* iptables: class Term (lib/iptables.py).                                 *)
(* The terms of the model leave the prefix, interface, icmp-type,          *)
(* packet-length and fragment-offset fields unset and have names of at     *)
(* most 24 characters, so that _CheckTermLength returns the name as it is. *)

PLATFORM_IPTABLES == "iptables"

REJECT_INET == "-j REJECT --reject-with icmp-host-prohibited"
REJECT_INET6 == "-j REJECT --reject-with adm-prohibited"

ACTION_TABLE(action, reject) ==
    CASE action = "accept" -> "-j ACCEPT"
      [] action = "deny" -> "-j DROP"
      [] action = "reject" -> reject
      [] action = "reject-with-tcp-rst" -> "-j REJECT --reject-with tcp-reset"
      [] action = "next" -> "-j RETURN"
      [] OTHER -> "None"

STATE_ESTABLISHED == "-m state --state ESTABLISHED,RELATED"
STATE_NEW == "-m state --state NEW,ESTABLISHED,RELATED"

(* 'state' in option, for the option texts the renderer produces.          *)
MentionsState(option) == option \in {STATE_ESTABLISHED, STATE_NEW}

(* 'ACCEPT' in action, for the texts of _ACTION_TABLE.                     *)
MentionsAccept(action) == action = "-j ACCEPT"

(* next_opt.find(prefix) == 0, for the options of the model's terms.       *)
StartsWith(opt, prefix) ==
    <<opt, prefix>> \in {<<"established", "established">>,
                         <<"tcp-established", "tcp-established">>,
                         <<"first-fragment", "first-fragment">>,
                         <<"sample", "sample">>,
                         <<"initial", "initial">>,
                         <<"rst", "rst">>}

TCP_FLAGS_TABLE ==
    <<<<"syn", "SYN">>, <<"ack", "ACK">>, <<"fin", "FIN">>, <<"rst", "RST">>,
      <<"urg", "URG">>, <<"psh", "PSH">>, <<"all", "ALL">>, <<"none", "NONE">>>>

OptionTcpFlags(opt) ==
    {TCP_FLAGS_TABLE[i][2] : i \in {j \in 1..Len(TCP_FLAGS_TABLE) :
                                       StartsWith(opt, TCP_FLAGS_TABLE[j][1])}}

KNOWN_OPTIONS_MATCHERS ==
    [x \in {"first-fragment", "initial", "tcp-initial", "sample"} |->
        CASE x = "first-fragment" -> "-m u32 --u32 4&0x3FFF=0x2000"
          [] x = "initial" -> "--syn"
          [] x = "tcp-initial" -> "--syn"
          [] x = "sample" -> ""]

(* filter_name[:1], for the chains of the model.                           *)
FirstChar(name) ==
    CASE name = "INPUT" -> "I"
      [] name = "OUTPUT" -> "O"
      [] name = "FORWARD" -> "F"
      [] OTHER -> "x"

(* Term.__init__: the renderer's term object.  term is a reference into    *)
(* the policy, kept as the position <<fi, ti>>.                            *)
IptablesTerm(fi, ti, term, filter_name, trackstate, filter_action, af) ==
    [fi |-> fi, ti |-> ti, filter |-> filter_name, trackstate |-> trackstate,
     default_action |-> filter_action, options |-> <<>>, af |-> af,
     term_name |-> <<FirstChar(filter_name), term.name>>]

(* Term.__init__ also stores the reject text of its address family in the  *)
(* class's _ACTION_TABLE.                                                  *)
IptablesTermReject(af) == IF af = "inet6" THEN REJECT_INET6 ELSE REJECT_INET

NoPortStatement == [multi |-> FALSE, direction |-> "", ports |-> <<>>]

(* The loops over sports and dports with the statements left in the order  *)
(* of the loops.                                                           *)
RECURSIVE FormatPartInnerInOrder(_, _, _, _, _)
FormatPartInnerInOrder(sport, dports, rval, log_jump, action) ==
    IF dports = <<>> THEN <<>>
    ELSE (IF log_jump # ""
          THEN <<[rval EXCEPT !.sport = sport, !.dport = Head(dports),
                              !.target = log_jump],
                 [rval EXCEPT !.sport = sport, !.dport = Head(dports),
                              !.target = action]>>
          ELSE <<[rval EXCEPT !.sport = sport, !.dport = Head(dports),
                              !.target = action]>>)
         \o FormatPartInnerInOrder(sport, Tail(dports), rval, log_jump, action)

(* The loops over sports and dports of _FormatPart.  sport is the loop     *)
(* variable of the outer loop as the inner loop has left it.               *)
RECURSIVE FormatPartInner(_, _, _, _, _)
FormatPartInner(sport, dports, rval, log_jump, action) ==
    IF dports = <<>> THEN <<>>
    ELSE LET swap == sport.multi /\ ~Head(dports).multi
             sp == IF swap THEN Head(dports) ELSE sport
             dp == IF swap THEN sport ELSE Head(dports)
             line == [rval EXCEPT !.sport = sp, !.dport = dp]
         IN (IF log_jump # ""
             THEN <<[line EXCEPT !.target = log_jump], [line EXCEPT !.target = action]>>
             ELSE <<[line EXCEPT !.target = action]>>)
            \o FormatPartInner(sp, Tail(dports), rval, log_jump, action)

RECURSIVE FormatPartOuter(_, _, _, _, _)
FormatPartOuter(sports, dports, rval, log_jump, action) ==
    IF sports = <<>> THEN <<>>
    ELSE FormatPartInner(Head(sports), dports, rval, log_jump, action)
         \o FormatPartOuter(Tail(sports), dports, rval, log_jump, action)

(* self._all_ips: every address of the family.                             *)
all_ips == <<0, 0>>

(* Term._FormatPart; saddr or daddr <<>> is an address that is not given   *)
(* and the addresses of the model are of the family of the filter.         *)
(* options is the list object self.options: an empty list is replaced by a *)
(* local one, a non-empty one is appended to in place.  Returns the lines  *)
(* and the list self.options is afterwards.                                *)
FormatPart(t, term, protocol, saddr, sport, daddr, dport, options, tcp_flags, icmp_type, track_flags, log_hits, action) ==
    LET log_jump == IF log_hits THEN "-j LOG --log-prefix" ELSE ""
        already_stateful == \E i \in 1..Len(options) : MentionsState(options[i])
        opts == IF t.trackstate /\ ~already_stateful /\ MentionsAccept(action)
                THEN Append(options, STATE_NEW)
                ELSE options
        flags == IF tcp_flags # {} \/ track_flags[1] # {}
                 THEN <<tcp_flags \cup track_flags[1], tcp_flags \cup track_flags[2]>>
                 ELSE <<>>
        sports == IF sport # <<>> THEN GeneratePortStatement(sport, "s")
                  ELSE <<NoPortStatement>>
        dports == IF dport # <<>> THEN GeneratePortStatement(dport, "d")
                  ELSE <<NoPortStatement>>
        rval == [kind |-> "rule", chain |-> t.term_name, proto |-> protocol,
                 flags |-> flags, sport |-> NoPortStatement,
                 dport |-> NoPortStatement, icmp |-> icmp_type,
                 src |-> IF saddr = all_ips THEN <<>> ELSE saddr,
                 dst |-> IF daddr = all_ips THEN <<>> ELSE daddr,
                 options |-> opts, log_prefix |-> IF log_hits THEN term.name ELSE "",
                 target |-> ""]
    IN [lines |-> FormatPartOuter(sports, dports, rval, log_jump, action),
        options |-> IF options = <<>> THEN options ELSE opts]

(* The loop over term.option of Term.__str__;                              *)
(* st is [options, tcp_flags, tcp_track_options, err].                     *)
RECURSIVE IptablesOptionLoop(_, _, _, _)
IptablesOptionLoop(opts, protocol, trackstate, st) ==
    IF opts = <<>> \/ st.err # NoError THEN st
    ELSE LET next_opt == Head(opts)
             est == /\ \/ StartsWith(next_opt, "established")
                       \/ StartsWith(next_opt, "tcp-established")
                    /\ ~Contains(st.options, "ESTABLISHED")
         IN IF est /\ StartsWith(next_opt, "tcp-established") /\ protocol # <<"tcp">>
            THEN [st EXCEPT !.err = "TcpEstablishedError"]
            ELSE LET st1 == IF est /\ trackstate
                            THEN [st EXCEPT !.options = Append(@, STATE_ESTABLISHED)]
                            ELSE IF est /\ protocol = <<"tcp">>
                            THEN [st EXCEPT !.tcp_track_options =
                                     <<<<{"ACK"}, {"ACK"}>>,
                                       <<{"SYN", "FIN", "ACK", "RST"}, {"RST"}>>>>]
                            ELSE st
                     st2 == [st1 EXCEPT !.tcp_flags = @ \cup OptionTcpFlags(next_opt)]
                     st3 == IF next_opt \in DOMAIN KNOWN_OPTIONS_MATCHERS
                            THEN [st2 EXCEPT !.options =
                                     Append(@, KNOWN_OPTIONS_MATCHERS[next_opt])]
                            ELSE st2
                 IN IptablesOptionLoop(Tail(opts), protocol, trackstate, st3)

(* The loops over saddr, daddr, proto and tcp_matcher around _FormatPart,  *)
(* parts being the <<saddr, daddr, proto, tcp_matcher>> in the order of    *)
(* the loops; acc is [lines, options].                                     *)
PartAppended(acc, part) ==
    [lines |-> acc.lines \o part.lines, options |-> part.options]

RECURSIVE IptablesPartLoop(_, _, _, _, _, _)
IptablesPartLoop(t, term, parts, tcp_flags, action, acc) ==
    IF parts = <<>> THEN acc
    ELSE IptablesPartLoop(t, term, Tail(parts), tcp_flags, action,
             PartAppended(acc,
                 FormatPart(t, term, Head(parts)[3], Head(parts)[1],
                            term.source_port, Head(parts)[2],
                            term.destination_port, acc.options, tcp_flags,
                            "", Head(parts)[4], term.logging # <<>>, action)))

ProtoMatcherPairs(protocol, matchers) ==
    Flatten([i \in 1..Len(protocol) |->
                [j \in 1..Len(matchers) |-> <<protocol[i], matchers[j]>>]])

PartTuples(term_saddr, term_daddr, pairs) ==
    Flatten(Flatten([i \in 1..Len(term_saddr) |->
                [j \in 1..Len(term_daddr) |->
                    [k \in 1..Len(pairs) |->
                        <<term_saddr[i], term_daddr[j], pairs[k][1], pairs[k][2]>>]]]))

(* len(x) or 1.                                                            *)
OrOne(n) == IF n = 0 THEN 1 ELSE n

(* term_saddr_excluded and term_daddr_excluded of Term.__str__.            *)
TermExcluded(address, exclude) ==
    IF exclude # <<>>
    THEN ExcludeAddrs(IF address = <<>> THEN <<all_ips>> ELSE address, exclude)
    ELSE <<>>

(* A choice between the excludes that keeps the bailout rules with the     *)
(* addresses that ExcludeAddrs gave.                                       *)
ExclusionChoiceBoth(source_address, destination_address, exclude_saddr, exclude_daddr, term_saddr_excluded, term_daddr_excluded) ==
    [exclude_saddr |-> exclude_saddr,
     exclude_daddr |-> exclude_daddr,
     term_saddr |-> IF term_saddr_excluded # <<>> THEN term_saddr_excluded
                    ELSE IF source_address = <<>> THEN <<all_ips>>
                    ELSE source_address,
     term_daddr |-> IF term_daddr_excluded # <<>> THEN term_daddr_excluded
                    ELSE IF destination_address = <<>> THEN <<all_ips>>
                    ELSE destination_address]

(* Term.__str__, the choice between bailout rules for the excluded         *)
(* addresses and the addresses that ExcludeAddrs gave:                     *)
(* [exclude_saddr, exclude_daddr, term_saddr, term_daddr] as the loops     *)
(* over them find them.                                                    *)
ExclusionChoice(source_address, destination_address, exclude_saddr, exclude_daddr, term_saddr_excluded, term_daddr_excluded) ==
    LET term_saddr == IF source_address = <<>> THEN <<all_ips>> ELSE source_address
        term_daddr == IF destination_address = <<>> THEN <<all_ips>>
                      ELSE destination_address
        bailout_count == Len(exclude_saddr) + Len(exclude_daddr)
                         + OrOne(Len(source_address)) * OrOne(Len(destination_address))
        exclude_count == OrOne(Len(term_saddr_excluded))
                         * OrOne(Len(term_daddr_excluded))
    IN IF exclude_count < bailout_count
       THEN [exclude_saddr |-> <<>>,
             exclude_daddr |-> <<>>,
             term_saddr |-> IF term_saddr_excluded # <<>> THEN term_saddr_excluded
                            ELSE term_saddr,
             term_daddr |-> IF term_daddr_excluded # <<>> THEN term_daddr_excluded
                            ELSE term_daddr]
       ELSE [exclude_saddr |-> exclude_saddr, exclude_daddr |-> exclude_daddr,
             term_saddr |-> term_saddr, term_daddr |-> term_daddr]

(* The rules for exclude_saddr and for exclude_daddr of Term.__str__.      *)
ReturnRules(t, term, exclude_saddr, exclude_daddr, action) ==
    Flatten([i \in 1..Len(exclude_saddr) |->
                FormatPart(t, term, "", exclude_saddr[i], <<>>, <<>>, <<>>, <<>>,
                           {}, "", <<{}, {}>>, FALSE, action).lines])
    \o Flatten([i \in 1..Len(exclude_daddr) |->
                FormatPart(t, term, "", <<>>, <<>>, exclude_daddr[i], <<>>, <<>>,
                           {}, "", <<{}, {}>>, FALSE, action).lines])

(* The rules of Term.__str__ after its loop over term.option gave st and   *)
(* its choice between the excludes gave addr: [lines, options].            *)
IptablesTermRules(t, term, reject, protocol, st, addr) ==
    IptablesPartLoop(t, term,
        PartTuples(addr.term_saddr, addr.term_daddr,
            ProtoMatcherPairs(protocol,
                IF st.tcp_track_options # <<>> THEN st.tcp_track_options
                ELSE <<<<{}, {}>>>>)),
        st.tcp_flags, ACTION_TABLE(term.action[1], reject),
        [lines |-> ReturnRules(t, term, addr.exclude_saddr, addr.exclude_daddr,
                               ACTION_TABLE("next", reject)),
         options |-> st.options])

(* The end of Term.__str__: [err, lines, options].                         *)
IptablesTermEnd(head, st, parts) ==
    IF st.err # NoError
    THEN [err |-> st.err, lines |-> <<>>, options |-> st.options]
    ELSE [err |-> NoError, lines |-> head \o parts.lines, options |-> parts.options]

(* Term.__str__: [err, lines, options], options being self.options after   *)
(* the call.  lines = <<>> is the empty string.                            *)
IptablesTermStr(t, term, reject) ==
    LET same == [err |-> NoError, lines |-> <<>>, options |-> t.options]
    IN IF term.platform # <<>> /\ ~Contains(term.platform, PLATFORM_IPTABLES)
       THEN same
       ELSE IF term.platform_exclude # <<>>
               /\ Contains(term.platform_exclude, PLATFORM_IPTABLES)
       THEN same
       ELSE IF \/ t.af = "inet6" /\ Contains(term.protocol, "icmp")
               \/ t.af = "inet" /\ Contains(term.protocol, "icmpv6")
       THEN [same EXCEPT !.lines =
                <<[kind |-> "comment", text |-> "# Term", name |-> term.name],
                  [kind |-> "comment",
                   text |-> "# not rendered due to protocol/AF mismatch.",
                   name |-> ""]>>]
       ELSE IF term.verbatim # <<>>
       THEN [same EXCEPT !.lines =
                [i \in 1..Len(SelectSeq(term.verbatim,
                                        LAMBDA v : v[1] = PLATFORM_IPTABLES)) |->
                    [kind |-> "verbatim",
                     text |-> SelectSeq(term.verbatim,
                                  LAMBDA v : v[1] = PLATFORM_IPTABLES)[i][2]]]]
       ELSE IF term.ether_type # <<>>
       THEN [same EXCEPT !.err = "UnsupportedFilterError"]
       ELSE
         LET head == <<[kind |-> "new_chain", chain |-> t.term_name],
                       [kind |-> "jump", from |-> t.filter, chain |-> t.term_name]>>
                     \o [i \in 1..Len(term.comment) |->
                            [kind |-> "chain_comment", chain |-> t.term_name,
                             text |-> term.comment[i]]]
             protocol == IF term.protocol # <<>> THEN term.protocol ELSE <<"all">>
             st == IptablesOptionLoop(term.option, protocol, t.trackstate,
                       [options |-> t.options, tcp_flags |-> {},
                        tcp_track_options |-> <<>>, err |-> NoError])
         IN IptablesTermEnd(head, st,
                IptablesTermRules(t, term, reject, protocol, st,
                    ExclusionChoice(term.source_address, term.destination_address,
                        term.source_address_exclude,
                        term.destination_address_exclude,
                        TermExcluded(term.source_address,
                                     term.source_address_exclude),
                        TermExcluded(term.destination_address,
                                     term.destination_address_exclude))))

----------------------------------------------------------------------------
(* iptables: Term._CheckTermLength (lib/iptables.py).  A name that is      *)
(* longer than the limit is the sequence of its characters.                *)

(* re.sub(word, abbrev, s) for a word without special characters: the      *)
(* occurrences of word are replaced from the left, without overlap.        *)
RECURSIVE ReSub(_, _, _)
ReSub(word, abbrev, s) ==
    IF Len(s) < Len(word) THEN s
    ELSE IF SubSeq(s, 1, Len(word)) = word
    THEN abbrev \o ReSub(word, abbrev, SubSeq(s, Len(word) + 1, Len(s)))
    ELSE <<Head(s)>> \o ReSub(word, abbrev, Tail(s))

abbreviation_table ==
    <<<<<<"b", "o", "g", "o", "n", "s">>,
        <<"B", "G", "N">>>>,
      <<<<"b", "o", "g", "o", "n">>,
        <<"B", "G", "N">>>>,
      <<<<"r", "e", "s", "e", "r", "v", "e", "d">>,
        <<"R", "S", "V">>>>,
      <<<<"r", "f", "c", "1", "9", "1", "8">>,
        <<"P", "R", "V">>>>,
      <<<<"r", "f", "c", "-", "1", "9", "1", "8">>,
        <<"P", "R", "V">>>>,
      <<<<"i", "n", "t", "e", "r", "n", "e", "t">>,
        <<"E", "X", "T">>>>,
      <<<<"g", "l", "o", "b", "a", "l">>,
        <<"G", "B", "L">>>>,
      <<<<"i", "n", "t", "e", "r", "n", "a", "l">>,
        <<"I", "N", "T">>>>,
      <<<<"c", "u", "s", "t", "o", "m", "e", "r">>,
        <<"C", "U", "S", "T">>>>,
      <<<<"g", "o", "o", "g", "l", "e">>,
        <<"G", "O", "O", "G">>>>,
      <<<<"b", "a", "l", "l", "m", "e", "r">>,
        <<"A", "S", "S">>>>,
      <<<<"m", "i", "c", "r", "o", "s", "o", "f", "t">>,
        <<"L", "O", "L">>>>,
      <<<<"c", "h", "i", "n", "a">>,
        <<"B", "A", "N">>>>,
      <<<<"b", "o", "r", "d", "e", "r">>,
        <<"B", "D", "R">>>>,
      <<<<"s", "e", "r", "v", "i", "c", "e">>,
        <<"S", "V", "C">>>>,
      <<<<"r", "o", "u", "t", "e", "r">>,
        <<"R", "T", "R">>>>,
      <<<<"t", "r", "a", "n", "s", "i", "t">>,
        <<"T", "R", "N", "S">>>>,
      <<<<"e", "x", "p", "e", "r", "i", "m", "e", "n", "t">>,
        <<"E", "X", "P">>>>,
      <<<<"e", "s", "t", "a", "b", "l", "i", "s", "h", "e", "d">>,
        <<"E", "S", "T">>>>,
      <<<<"u", "n", "r", "e", "a", "c", "h", "a", "b", "l", "e">>,
        <<"U", "N", "R">>>>,
      <<<<"f", "r", "a", "g", "m", "e", "n", "t">>,
        <<"F", "R", "G">>>>,
      <<<<"a", "c", "c", "e", "p", "t">>,
        <<"O", "K">>>>,
      <<<<"d", "i", "s", "c", "a", "r", "d">>,
        <<"D", "S", "C">>>>,
      <<<<"r", "e", "j", "e", "c", "t">>,
        <<"R", "E", "J">>>>,
      <<<<"r", "e", "p", "l", "i", "e", "s">>,
        <<"A", "C", "K">>>>,
      <<<<"r", "e", "q", "u", "e", "s", "t">>,
        <<"R", "E", "Q">>>>>>

(* The loop over abbreviation_table with every entry applied, whether the  *)
(* name fits or not.                                                       *)
RECURSIVE AbbreviationLoopNoStop(_, _, _)
AbbreviationLoopNoStop(new_term, k, term_max_len) ==
    IF k > Len(abbreviation_table) THEN [returned |-> FALSE, new_term |-> new_term]
    ELSE AbbreviationLoopNoStop(
             ReSub(abbreviation_table[k][1], abbreviation_table[k][2], new_term),
             k + 1, term_max_len)

(* The loop over abbreviation_table from its entry k on:                   *)
(* [returned, new_term].                                                   *)
RECURSIVE AbbreviationLoop(_, _, _)
AbbreviationLoop(new_term, k, term_max_len) ==
    IF k > Len(abbreviation_table) THEN [returned |-> FALSE, new_term |-> new_term]
    ELSE IF Len(new_term) <= term_max_len
    THEN [returned |-> TRUE, new_term |-> new_term]
    ELSE AbbreviationLoop(
             ReSub(abbreviation_table[k][1], abbreviation_table[k][2], new_term),
             k + 1, term_max_len)

(* The end of _CheckTermLength, after the loop: [err, name].               *)
CheckTermLengthEnd(loop, term_max_len) ==
    IF loop.returned \/ Len(loop.new_term) <= term_max_len
    THEN [err |-> NoError, name |-> loop.new_term]
    ELSE [err |-> "TermNameTooLongError", name |-> loop.new_term]

(* Term._CheckTermLength: [err, name].                                     *)
CheckTermLength(term_name, term_max_len, abbreviate) ==
    CheckTermLengthEnd(IF abbreviate
                       THEN AbbreviationLoop(term_name, 1, term_max_len)
                       ELSE [returned |-> FALSE, new_term |-> term_name],
                       term_max_len)

(* Term.__init__ calls _CheckTermLength(term.name, 24, truncate).          *)
TermMaxLen == 24

----------------------------------------------------------------------------
(* iptables: class Iptables (lib/iptables.py).                             *)
(* aclgenerator.FixHighPorts is not among the sources; the terms of the    *)
(* policies that are translated carry no 'established' option, for which   *)
(* it hands the term back as it is.  WrapWords leaves the short comment    *)
(* lines of the model as they are and AddRepositoryTags adds fixed lines.  *)

good_default_actions == <<"ACCEPT", "DROP">>
good_filters == <<"INPUT", "OUTPUT", "FORWARD">>
good_afs == <<"inet", "inet6">>
good_options == <<"nostate", "truncatenames">>

(* A plausible slip: the term that is expired is left out with a note, not *)
(* a warning.                                                              *)
WarnExpiredAsNote(term, filter_name) ==
    [level |-> "info", what |-> "expiring", term |-> term.name, filter |-> filter_name]

WarnExpired(term, filter_name) ==
    [level |-> "warn", what |-> "expired", term |-> term.name, filter |-> filter_name]

InfoExpiring(term, filter_name) ==
    [level |-> "info", what |-> "expiring", term |-> term.name, filter |-> filter_name]

(* The term object t with the name that _CheckTermLength gave, appended to *)
(* new_terms; when _CheckTermLength raised, the constructor has stored no  *)
(* reject text.                                                            *)
IptablesTermConstructed(acc, ctx, t, fitted) ==
    IF fitted.err # NoError THEN [acc EXCEPT !.err = fitted.err]
    ELSE [acc EXCEPT
             !.new_terms = Append(@, [t EXCEPT !.term_name = <<@[1], fitted.name>>]),
             !.reject = IptablesTermReject(ctx.filter_type)]

(* The loop over the terms of one filter;                                  *)
(* acc is [term_names, new_terms, err, log, reject].                       *)
RECURSIVE IptablesTermLoop(_, _, _, _, _)
IptablesTermLoop(pol, fi, ti, ctx, acc) ==
    IF acc.err # NoError \/ ti > Len(pol[fi].terms) THEN acc
    ELSE LET term == pol[fi].terms[ti]
         IN IF term.name \in acc.term_names
            THEN [acc EXCEPT !.err = "DuplicateTermError"]
            ELSE LET acc1 == [acc EXCEPT !.term_names = @ \cup {term.name}]
                 IN IF term.expiration # 0 /\ term.expiration <= Today
                    THEN IptablesTermLoop(pol, fi, ti + 1, ctx,
                             [acc1 EXCEPT !.log =
                                 Append(@, WarnExpired(term, ctx.filter_name))])
                    ELSE IptablesTermLoop(pol, fi, ti + 1, ctx,
                             IptablesTermConstructed(acc1, ctx,
                                 IptablesTerm(fi, ti, term, ctx.filter_name,
                                     ctx.all_protocols_stateful,
                                     ctx.default_action, ctx.filter_type),
                                 CheckTermLength(term.name, TermMaxLen, ctx.truncate)))

(* The last of the words of options that is a good default action, or      *)
(* default_action when there is none.                                      *)
RECURSIVE LastDefaultAction(_, _)
LastDefaultAction(options, default_action) ==
    IF options = <<>> THEN default_action
    ELSE LastDefaultAction(Tail(options),
             IF Contains(good_default_actions, Head(options))
             THEN Head(options) ELSE default_action)

(* The loop over pol.filters of _TranslatePolicy; st is                    *)
(* [default_action, all_protocols_stateful, policies, err, log, reject].   *)
(* default_action and all_protocols_stateful are set before the loop and   *)
(* not again.                                                              *)
RECURSIVE IptablesFilterLoop(_, _, _)
IptablesFilterLoop(pol, fi, st) ==
    IF st.err # NoError \/ fi > Len(pol) THEN st
    ELSE
      LET header == pol[fi].header
          target == FilterOptions(header, PLATFORM_IPTABLES)
          filter_options == Tail(target)
          filter_name == FilterName(header, PLATFORM_IPTABLES)
          bad_option == \E i \in 1..Len(filter_options) :
                           ~Contains(good_default_actions \o good_afs \o good_options,
                                     filter_options[i])
          stateful == IF Contains(filter_options, "nostate") THEN FALSE
                      ELSE st.all_protocols_stateful
          afs == SelectSeq(good_afs, LAMBDA af : Contains(filter_options, af))
          filter_type == IF afs = <<>> THEN "inet" ELSE afs[1]
          forward == IF filter_name = "FORWARD" THEN "DROP" ELSE st.default_action
          default_action == IF Len(target) > 1
                            THEN LastDefaultAction(target, forward) ELSE forward
      IN IF PLATFORM_IPTABLES \notin header.platforms
         THEN IptablesFilterLoop(pol, fi + 1, st)
         ELSE IF bad_option THEN [st EXCEPT !.err = "UnsupportedTargetOption"]
         ELSE IF Len(afs) > 1 THEN [st EXCEPT !.err = "UnsupportedFilterError"]
         ELSE IF default_action # "" /\ ~Contains(good_default_actions, default_action)
         THEN [st EXCEPT !.err = "UnsupportedDefaultAction"]
         ELSE
           LET acc == IptablesTermLoop(pol, fi, 1,
                          [filter_name |-> filter_name, filter_type |-> filter_type,
                           all_protocols_stateful |-> stateful,
                           default_action |-> default_action,
                           truncate |-> Contains(filter_options, "truncatenames")],
                          [term_names |-> {}, new_terms |-> <<>>, err |-> NoError,
                           log |-> st.log, reject |-> st.reject])
           IN IptablesFilterLoop(pol, fi + 1,
                  [default_action |-> default_action,
                   all_protocols_stateful |-> stateful,
                   policies |-> IF acc.err # NoError THEN st.policies
                                ELSE Append(st.policies,
                                         [fi |-> fi, filter_name |-> filter_name,
                                          filter_type |-> filter_type,
                                          default_action |-> default_action,
                                          terms |-> acc.new_terms]),
                   err |-> acc.err, log |-> acc.log, reject |-> acc.reject])

(* Iptables._TranslatePolicy.  default_action None is "".                  *)
IptablesTranslatePolicy(pol, reject) ==
    IptablesFilterLoop(pol, 1,
        [default_action |-> "", all_protocols_stateful |-> TRUE,
         policies |-> <<>>, err |-> NoError, log |-> <<>>, reject |-> reject])

(* The loop over the terms of one filter of Iptables.__str__;              *)
(* acc is [err, target, terms].                                            *)
IptablesTermAppended(acc, k, r) ==
    [err |-> r.err,
     target |-> acc.target \o
                (IF r.lines = <<>> THEN <<[kind |-> "blank"]>> ELSE r.lines),
     terms |-> [acc.terms EXCEPT ![k].options = r.options]]

IptablesStrOfTerm(t, pol, reject) == IptablesTermStr(t, pol[t.fi].terms[t.ti], reject)

RECURSIVE IptablesStrTerms(_, _, _, _)
IptablesStrTerms(pol, reject, k, acc) ==
    IF acc.err # NoError \/ k > Len(acc.terms) THEN acc
    ELSE IptablesStrTerms(pol, reject, k + 1,
             IptablesTermAppended(acc, k, IptablesStrOfTerm(acc.terms[k], pol, reject)))

(* Iptables.__str__: [err, target, policies], policies being               *)
(* self.iptables_policies with the term objects as str() has left them.    *)
IptablesFilterTop(header, p) ==
    <<[kind |-> "filter_header", name |-> FilterName(header, PLATFORM_IPTABLES)]>>
    \o (IF header.comment # <<>>
        THEN [i \in 1..Len(header.comment) |->
                 [kind |-> "header_comment", text |-> header.comment[i]]]
             \o <<[kind |-> "comment_end"]>>
        ELSE <<>>)
    \o <<[kind |-> "repository_tags"],
         [kind |-> "filter_type", af |-> p.filter_type]>>
    \o (IF p.default_action # ""
        THEN <<[kind |-> "default_action", chain |-> p.filter_name,
                action |-> p.default_action]>>
        ELSE <<>>)

IptablesFilterAppended(acc, n, r) ==
    [err |-> r.err, target |-> r.target \o <<[kind |-> "blank"]>>,
     policies |-> [acc.policies EXCEPT ![n].terms = r.terms]]

IptablesStrOfFilter(pol, reject, target, p) ==
    IptablesStrTerms(pol, reject, 1,
        [err |-> NoError,
         target |-> target \o IptablesFilterTop(pol[p.fi].header, p),
         terms |-> p.terms])

RECURSIVE IptablesStr(_, _, _, _)
IptablesStr(pol, reject, n, acc) ==
    IF acc.err # NoError \/ n > Len(acc.policies) THEN acc
    ELSE IptablesStr(pol, reject, n + 1,
             IptablesFilterAppended(acc, n,
                 IptablesStrOfFilter(pol, reject, acc.target, acc.policies[n])))

----------------------------------------------------------------------------
(* Juniper: class Config (lib/juniper.py).                                 *)
(* A line handed to Append is a record; its text ends in '}' when it is a  *)
(* closing line or a comment line whose user text ends in '}', and in ' {' *)
(* when it is an opening line or a comment line whose user text does.      *)

TABSTOP == 4
DEFAULT_INDENT == 12

(* The user texts of the model that end in a brace.                        *)
TextEndsWithClose(text) == text \in {"x }"}
TextEndsWithOpen(text) == text \in {"y {"}

LastWord(words) == words[Len(words)]

EndsWithClose(line) ==
    \/ line.kind = "close"
    \/ line.kind = "comment" /\ line.words # <<>> /\ TextEndsWithClose(LastWord(line.words))

EndsWithOpen(line) ==
    \/ line.kind = "open"
    \/ line.kind = "comment" /\ line.words # <<>> /\ TextEndsWithOpen(LastWord(line.words))

Config(indent) ==
    [indent |-> indent, initial_indent |-> indent, lines |-> <<>>, err |-> NoError]

(* Config.Append; once it has raised, the later calls are not reached.     *)
ConfigAppend(config, line, verbatim) ==
    IF config.err # NoError THEN config
    ELSE IF verbatim
    THEN [config EXCEPT !.lines = Append(@, [indent |-> 0, line |-> line])]
    ELSE LET indent == IF EndsWithClose(line) THEN config.indent - TABSTOP
                       ELSE config.indent
         IN IF indent < config.initial_indent
            THEN [config EXCEPT !.indent = indent, !.err = "JuniperIndentationError"]
            ELSE [config EXCEPT
                     !.lines = Append(@, [indent |-> indent, line |-> line]),
                     !.indent = IF EndsWithOpen(line) THEN indent + TABSTOP ELSE indent]

RECURSIVE ConfigAppendAll(_, _)
ConfigAppendAll(config, lines) ==
    IF lines = <<>> THEN config
    ELSE ConfigAppendAll(ConfigAppend(config, Head(lines), FALSE), Tail(lines))

(* Config.__str__: [err, lines].                                           *)
ConfigStr(config) ==
    IF config.err # NoError THEN [err |-> config.err, lines |-> <<>>]
    ELSE IF config.indent # config.initial_indent
    THEN [err |-> "JuniperIndentationError", lines |-> <<>>]
    ELSE [err |-> NoError, lines |-> config.lines]

Open(words) == [kind |-> "open", words |-> words]
Close == [kind |-> "close", words |-> <<>>]
Stmt(words) == [kind |-> "stmt", words |-> words]
Comment(words) == [kind |-> "comment", words |-> words]

----------------------------------------------------------------------------
(* Juniper: class Term (lib/juniper.py).  A comment of a term is a         *)
(* sequence of words, <<text>> for a comment of the policy.  The terms of  *)
(* the model keep the fields that are not in MkTerm unset.                 *)

PLATFORM_JUNIPER == "juniper"

JUNIPER_ACTIONS(action) ==
    CASE action = "accept" -> "accept"
      [] action = "deny" -> "discard"
      [] action = "reject" -> "reject"
      [] action = "next" -> "next term"
      [] action = "reject-with-tcp-rst" -> "reject tcp-reset"
      [] OTHER -> "None"

TERM_TYPE(term_type) ==
    CASE term_type = "inet" ->
           [protocol |-> "protocol", tcp_est |-> "tcp-established"]
      [] term_type = "inet6" ->
           [protocol |-> "next-header", tcp_est |-> "tcp-established"]
      [] term_type = "bridge" ->
           [protocol |-> "ip-protocol", tcp_est |-> "tcp-flags \"(ack|rst)\""]

(* Term.__init__.                                                          *)
JuniperTerm(fi, ti, term_type) ==
    [fi |-> fi, ti |-> ti, term_type |-> term_type, extra_actions |-> <<>>]

(* The loop over term.option of Term.__str__;                              *)
(* st is [from_str, extra_actions, err].                                   *)
RECURSIVE JuniperOptionLoop(_, _, _, _)
JuniperOptionLoop(opts, term, family_keywords, st) ==
    IF opts = <<>> \/ st.err # NoError THEN st
    ELSE
      LET opt == Head(opts)
          flag == family_keywords.tcp_est
          st1 ==
            IF StartsWith(opt, "sample")
            THEN [st EXCEPT !.extra_actions = Append(@, "sample")]
            ELSE IF StartsWith(opt, "established")
            THEN IF term.protocol = <<"tcp">> /\ ~Contains(st.from_str, "tcp-established")
                 THEN [st EXCEPT !.from_str = Append(@, flag)]
                 ELSE st
            ELSE IF StartsWith(opt, "tcp-established")
            THEN IF term.protocol = <<"tcp">>
                 THEN IF ~Contains(st.from_str, flag)
                      THEN [st EXCEPT !.from_str = Append(@, flag)]
                      ELSE st
                 ELSE [st EXCEPT !.err = "TcpEstablishedWithNonTcp"]
            ELSE IF StartsWith(opt, "rst")
            THEN [st EXCEPT !.from_str = Append(@, "tcp-flags \"rst\"")]
            ELSE IF StartsWith(opt, "initial") /\ Contains(term.protocol, "tcp")
            THEN [st EXCEPT !.from_str = Append(@, "tcp-initial")]
            ELSE IF StartsWith(opt, "first-fragment")
            THEN [st EXCEPT !.from_str = Append(@, "first-fragment")]
            ELSE [st EXCEPT !.from_str = Append(@, opt)]
      IN JuniperOptionLoop(Tail(opts), term, family_keywords, st1)

(* Term.__str__: [err, lines, extra_actions, comment], extra_actions being *)
(* self.extra_actions and comment being self.term.comment after the call.  *)
JuniperTermStr(t, term) ==
    LET same == [err |-> NoError, lines |-> <<>>, extra_actions |-> t.extra_actions,
                 comment |-> term.comment]
        config0 == Config(DEFAULT_INDENT)
    IN IF term.platform # <<>> /\ ~Contains(term.platform, PLATFORM_JUNIPER)
       THEN same
       ELSE IF term.platform_exclude # <<>>
               /\ Contains(term.platform_exclude, PLATFORM_JUNIPER)
       THEN same
       ELSE IF \/ t.term_type = "inet6" /\ Contains(term.protocol, "icmp")
               \/ t.term_type = "inet" /\ Contains(term.protocol, "icmpv6")
       THEN LET c == ConfigStr(ConfigAppendAll(config0,
                         <<Comment(<<"/* Term", term.name>>),
                           Comment(<<"** not rendered due to protocol/AF mismatch.">>),
                           Comment(<<"*/">>)>>))
            IN [same EXCEPT !.err = c.err, !.lines = c.lines]
       ELSE
         LET comment == IF term.owner # ""
                        THEN Append(term.comment, <<"Owner:", term.owner>>)
                        ELSE term.comment
             config1 == IF comment # <<>>
                        THEN ConfigAppendAll(config0,
                                 <<Comment(<<"/*">>)>>
                                 \o [i \in 1..Len(comment) |->
                                        Comment(<<"**">> \o comment[i])]
                                 \o <<Comment(<<"*/">>)>>)
                        ELSE config0
             family_keywords == TERM_TYPE(t.term_type)
             st == JuniperOptionLoop(term.option, term, family_keywords,
                       [from_str |-> <<>>, extra_actions |-> t.extra_actions,
                        err |-> NoError])
             has_match_criteria == \/ term.destination_port # <<>>
                                   \/ term.protocol # <<>>
                                   \/ term.ether_type # <<>>
             from_block ==
               <<Open(<<"from">>)>>
               \o (IF term.protocol # <<>>
                   THEN <<[kind |-> "stmt", words |-> <<family_keywords.protocol>>,
                           group |-> term.protocol]>>
                   ELSE <<>>)
               \o (IF term.destination_port # <<>>
                   THEN <<[kind |-> "stmt", words |-> <<"destination-port">>,
                           ports |-> [i \in 1..Len(term.destination_port) |->
                                         NormPort(term.destination_port[i])]]>>
                   ELSE <<>>)
               \o [i \in 1..Len(st.from_str) |-> Stmt(<<st.from_str[i]>>)]
               \o (IF term.ether_type # <<>>
                   THEN <<[kind |-> "stmt", words |-> <<"ether-type">>,
                           group |-> term.ether_type]>>
                   ELSE <<>>)
               \o <<Close>>
             then_block ==
               <<Open(<<"then">>)>>
               \o [i \in 1..Len(term.logging) |->
                      Stmt(<<IF term.logging[i] = "local" THEN "log" ELSE "syslog">>)]
               \o [i \in 1..Len(st.extra_actions) |-> Stmt(<<st.extra_actions[i]>>)]
               \o [i \in 1..Len(term.action) |-> Stmt(<<JUNIPER_ACTIONS(term.action[i])>>)]
               \o <<Close, Close>>
         IN IF term.verbatim # <<>>
            THEN LET v == SelectSeq(term.verbatim, LAMBDA x : x[1] = PLATFORM_JUNIPER)
                     c == ConfigStr([config1 EXCEPT !.lines = @ \o
                              [i \in 1..Len(v) |->
                                  [indent |-> 0,
                                   line |-> [kind |-> "verbatim", words |-> <<v[i][2]>>]]]])
                 IN [err |-> c.err, lines |-> c.lines,
                     extra_actions |-> t.extra_actions, comment |-> comment]
            ELSE IF st.err # NoError
            THEN [err |-> st.err, lines |-> <<>>,
                  extra_actions |-> st.extra_actions, comment |-> comment]
            ELSE LET c == ConfigStr(ConfigAppendAll(config1,
                              <<Open(<<"term", term.name>>)>>
                              \o (IF has_match_criteria THEN from_block ELSE <<>>)
                              \o then_block))
                 IN [err |-> c.err, lines |-> c.lines,
                     extra_actions |-> st.extra_actions, comment |-> comment]

----------------------------------------------------------------------------
(* Juniper: class Juniper (lib/juniper.py).                                *)
(* aclgenerator.FixTermLength is not among the sources; the names of the   *)
(* model are short and term.name = FixTermLength(term.name) stores the     *)
(* name the term has.  filter_options is taken to be the renderer's own    *)
(* list.                                                                   *)

RemoveFirst(s, x) ==
    LET i == CHOOSE j \in 1..Len(s) : s[j] = x /\ \A k \in 1..(j - 1) : s[k] # x
    IN SubSeq(s, 1, i - 1) \o SubSeq(s, i + 1, Len(s))

(* The loop over the terms of one filter;                                  *)
(* acc is [term_names, new_terms, err, log].                               *)
RECURSIVE JuniperTermLoop(_, _, _, _, _)
JuniperTermLoop(pol, fi, ti, ctx, acc) ==
    IF acc.err # NoError \/ ti > Len(pol[fi].terms) THEN acc
    ELSE
      LET term == pol[fi].terms[ti]
      IN IF term.name \in acc.term_names
         THEN [acc EXCEPT !.err = "JuniperDuplicateTermError"]
         ELSE
           LET acc1 == [acc EXCEPT !.term_names = @ \cup {term.name}]
               acc2 == IF term.expiration # 0 /\ term.expiration <= ctx.exp_info_date
                       THEN [acc1 EXCEPT !.log =
                                Append(@, InfoExpiring(term, ctx.filter_name))]
                       ELSE acc1
           IN IF term.expiration # 0 /\ term.expiration <= Today
              THEN JuniperTermLoop(pol, fi, ti + 1, ctx,
                       [acc2 EXCEPT !.log =
                           Append(@, WarnExpired(term, ctx.filter_name))])
              ELSE JuniperTermLoop(pol, fi, ti + 1, ctx,
                       [acc2 EXCEPT !.new_terms =
                           Append(@, JuniperTerm(fi, ti, ctx.filter_type))])

(* The loop over pol.filters; st is [policies, err, log].                  *)
RECURSIVE JuniperFilterLoop(_, _, _, _)
JuniperFilterLoop(pol, fi, exp_info_date, st) ==
    IF st.err # NoError \/ fi > Len(pol) THEN st
    ELSE
      LET header == pol[fi].header
          options0 == FilterOptions(header, PLATFORM_JUNIPER)
          filter_name == FilterName(header, PLATFORM_JUNIPER)
          interface_specific == ~Contains(Tail(options0), "not-interface-specific")
          filter_options == IF interface_specific THEN options0
                            ELSE RemoveFirst(options0, "not-interface-specific")
          filter_type == IF Len(filter_options) > 1 THEN filter_options[2] ELSE "inet"
      IN IF PLATFORM_JUNIPER \notin header.platforms
         THEN JuniperFilterLoop(pol, fi + 1, exp_info_date, st)
         ELSE
           LET acc == JuniperTermLoop(pol, fi, 1,
                          [filter_name |-> filter_name, filter_type |-> filter_type,
                           exp_info_date |-> exp_info_date],
                          [term_names |-> {}, new_terms |-> <<>>, err |-> NoError,
                           log |-> st.log])
           IN JuniperFilterLoop(pol, fi + 1, exp_info_date,
                  [policies |-> IF acc.err # NoError THEN st.policies
                                ELSE Append(st.policies,
                                         [fi |-> fi, filter_name |-> filter_name,
                                          filter_type |-> filter_type,
                                          interface_specific |-> interface_specific,
                                          terms |-> acc.new_terms]),
                   err |-> acc.err, log |-> acc.log])

(* Juniper._TranslatePolicy.                                               *)
JuniperTranslatePolicy(pol, exp_info) ==
    JuniperFilterLoop(pol, 1, Today + 7 * exp_info,
        [policies |-> <<>>, err |-> NoError, log |-> <<>>])

(* The loop over the terms of one filter of Juniper.__str__;               *)
(* acc is [err, config, terms, pol]: str(term) changes the term's comment. *)
JuniperTermAppended(acc, k, t, r) ==
    [err |-> r.err,
     config |-> IF r.lines # <<>>
                THEN ConfigAppend(acc.config,
                         [kind |-> "term", words |-> <<>>, lines |-> r.lines], TRUE)
                ELSE acc.config,
     terms |-> [acc.terms EXCEPT ![k].extra_actions = r.extra_actions],
     pol |-> [acc.pol EXCEPT ![t.fi].terms[t.ti].comment = r.comment]]

JuniperStrOfTerm(t, pol) == JuniperTermStr(t, pol[t.fi].terms[t.ti])

RECURSIVE JuniperStrTerms(_, _)
JuniperStrTerms(k, acc) ==
    IF acc.err # NoError \/ k > Len(acc.terms) THEN acc
    ELSE JuniperStrTerms(k + 1,
             JuniperTermAppended(acc, k, acc.terms[k],
                                 JuniperStrOfTerm(acc.terms[k], acc.pol)))

(* The loop over self.juniper_policies; acc is [err, config, policies, pol]. *)
JuniperFilterTop(config, header, p) ==
    ConfigAppendAll(config,
        <<Open(<<"firewall">>), Open(<<"family", p.filter_type>>),
          Stmt(<<"replace:">>), Comment(<<"/*">>),
          Comment(<<"** repository tags">>), Comment(<<"**">>)>>
        \o [i \in 1..Len(header.comment) |-> Comment(<<"**">> \o header.comment[i])]
        \o <<Comment(<<"*/">>), Open(<<"filter", p.filter_name>>)>>
        \o (IF p.interface_specific THEN <<Stmt(<<"interface-specific">>)>> ELSE <<>>))

JuniperFilterTerms(config1, p, pol) ==
    JuniperStrTerms(1, [err |-> config1.err, config |-> config1,
                        terms |-> p.terms, pol |-> pol])

JuniperFilterClosed(acc, n, r, config2) ==
    [err |-> IF r.err # NoError THEN r.err ELSE config2.err,
     config |-> config2,
     policies |-> [acc.policies EXCEPT ![n].terms = r.terms],
     pol |-> r.pol]

JuniperFilterAppended(acc, n, r) ==
    JuniperFilterClosed(acc, n, r, ConfigAppendAll(r.config, <<Close, Close, Close>>))

JuniperStrOfFilter(acc, p) ==
    JuniperFilterTerms(JuniperFilterTop(acc.config, acc.pol[p.fi].header, p), p, acc.pol)

RECURSIVE JuniperStrLoop(_, _)
JuniperStrLoop(n, acc) ==
    IF acc.err # NoError \/ n > Len(acc.policies) THEN acc
    ELSE JuniperStrLoop(n + 1,
             JuniperFilterAppended(acc, n, JuniperStrOfFilter(acc, acc.policies[n])))

(* Juniper.__str__: [err, target, policies, pol].                          *)
JuniperConfigText(r, c) ==
    [err |-> IF r.err # NoError THEN r.err ELSE c.err,
     target |-> IF r.err # NoError THEN <<>> ELSE c.lines,
     policies |-> r.policies, pol |-> r.pol]

JuniperConfigured(r) == JuniperConfigText(r, ConfigStr(r.config))

JuniperStr(policies, pol) ==
    JuniperConfigured(JuniperStrLoop(1, [err |-> NoError, config |-> Config(0),
                                         policies |-> policies, pol |-> pol]))

----------------------------------------------------------------------------
(* Cisco: class Term and class Cisco (lib/cisco.py).  The filters of the   *)
(* model are of type extended, inet6 or mixed and their names are not      *)
(* numbers; the terms have no addresses, no source ports, no dscp match    *)
(* and no icmp types.                                                      *)

PLATFORM_CISCO == "cisco"

CISCO_ACTION_TABLE(action) ==
    CASE action = "accept" -> "permit"
      [] action = "deny" -> "deny"
      [] action = "reject" -> "deny"
      [] action = "next" -> "! next"
      [] action = "reject-with-tcp-rst" -> "deny"
      [] OTHER -> "None"

ALLOWED_PROTO_STRINGS ==
    {"eigrp", "gre", "icmp", "igmp", "igrp", "ip", "ipinip", "nos", "ospf",
     "pim", "tcp", "udp", "sctp", "ahp", "esp"}

(* aclgenerator.Term.PROTO_MAP, the assigned numbers of the protocols.     *)
PROTO_MAP(proto) ==
    CASE proto = "icmp" -> "1"
      [] proto = "tcp" -> "6"
      [] proto = "udp" -> "17"
      [] proto = "icmpv6" -> "58"
      [] OTHER -> "None"

(* Term.__init__ as Cisco._TranslatePolicy calls it.                       *)
CiscoTerm(fi, ti, af) ==
    [fi |-> fi, ti |-> ti, af |-> af, options |-> <<>>,
     proto_int |-> TRUE, term_remark |-> TRUE, platform |-> PLATFORM_CISCO]

FormatPort(port) ==
    IF port = <<>> THEN <<>>
    ELSE IF port[1] # port[2] THEN <<"range", port[1], port[2]>>
    ELSE <<"eq", port[1]>>

FixOptions(proto, option) ==
    IF (proto = PROTO_MAP("udp") \/ proto = "udp") /\ Contains(option, "established")
    THEN RemoveFirst(option, "established")
    ELSE option

TermletToStr(action, proto, saddr, sport, daddr, dport, icmp_type, option) ==
    [kind |-> "ace", action |-> action, proto |-> proto, saddr |-> saddr,
     sport |-> sport, daddr |-> daddr, dport |-> dport, icmp_type |-> icmp_type,
     option |-> option]

RECURSIVE FixConsecutivePorts(_)
FixConsecutivePorts(port_list) ==
    IF port_list = <<>> THEN <<>>
    ELSE LET low_port == Head(port_list)[1]
             high_port == Head(port_list)[2]
         IN (IF low_port = high_port - 1
             THEN <<<<low_port, low_port>>, <<high_port, high_port>>>>
             ELSE <<<<low_port, high_port>>>>)
            \o FixConsecutivePorts(Tail(port_list))

(* Term.__str__: [lines, options, comment]; lines = <<>> is the empty      *)
(* string, options is self.options and comment is self.term.comment after  *)
(* the call.                                                               *)
CiscoTermStr(t, term) ==
    LET skip == [lines |-> <<>>, options |-> t.options, comment |-> term.comment]
    IN IF term.platform # <<>> /\ ~Contains(term.platform, t.platform) THEN skip
       ELSE IF term.platform_exclude # <<>> /\ Contains(term.platform_exclude, t.platform)
       THEN skip
       ELSE IF \/ t.af = 6 /\ Contains(term.protocol, "icmp")
               \/ t.af = 4 /\ Contains(term.protocol, "icmpv6")
       THEN skip
       ELSE
         LET comment == IF term.owner # ""
                        THEN Append(term.comment, <<"Owner:", term.owner>>)
                        ELSE term.comment
             head == <<[kind |-> "blank"]>>
                     \o (IF t.term_remark
                         THEN <<[kind |-> "remark", words |-> <<term.name>>]>>
                         ELSE <<>>)
                     \o [i \in 1..Len(comment) |->
                            [kind |-> "remark", words |-> comment[i]]]
         IN IF term.verbatim # <<>>
            THEN [lines |-> head \o (IF term.verbatim[1][1] = t.platform
                                     THEN <<[kind |-> "verbatim",
                                             text |-> term.verbatim[1][2]]>>
                                     ELSE <<>>),
                  options |-> t.options, comment |-> comment]
            ELSE
              LET protocol ==
                      IF term.protocol = <<>>
                      THEN (IF t.af = 6 THEN <<"ipv6">>
                            ELSE IF t.platform = "ciscoxr" THEN <<"ipv4">>
                            ELSE <<"ip">>)
                      ELSE IF term.protocol = <<"hopopt">> THEN <<"hbh">>
                      ELSE IF t.proto_int
                      THEN [i \in 1..Len(term.protocol) |->
                               IF term.protocol[i] \in ALLOWED_PROTO_STRINGS
                               THEN term.protocol[i]
                               ELSE PROTO_MAP(term.protocol[i])]
                      ELSE term.protocol
                  options1 ==
                      IF /\ Contains(protocol, PROTO_MAP("tcp")) \/ Contains(protocol, "tcp")
                         /\ \/ Contains(term.option, "tcp-established")
                            \/ Contains(term.option, "established")
                         /\ ~Contains(t.options, "established")
                      THEN Append(t.options, "established")
                      ELSE t.options
                  destination_port ==
                      IF term.destination_port # <<>>
                      THEN FixConsecutivePorts(term.destination_port)
                      ELSE <<<<>>>>
                  options2 == IF term.logging # <<>> THEN Append(options1, "log")
                              ELSE options1
                  fixed_dst_ports == [i \in 1..Len(destination_port) |->
                                         FormatPort(destination_port[i])]
                  aces == Flatten(
                      [d \in 1..Len(fixed_dst_ports) |->
                         [q \in 1..Len(protocol) |->
                            TermletToStr(CISCO_ACTION_TABLE(term.action[1]),
                                         protocol[q], "any", <<>>, "any",
                                         fixed_dst_ports[d], "",
                                         FixOptions(protocol[q], options2))]])
              IN [lines |-> head \o aces, options |-> options2, comment |-> comment]

cisco_good_filters == {"extended", "standard", "object-group", "inet6", "mixed"}

(* The loop over the terms for one next_filter; acc is [new_terms, log].   *)
RECURSIVE CiscoTermLoop(_, _, _, _, _)
CiscoTermLoop(pol, fi, ti, ctx, acc) ==
    IF ti > Len(pol[fi].terms) THEN acc
    ELSE
      LET term == pol[fi].terms[ti]
          acc2 == IF term.expiration # 0 /\ term.expiration <= ctx.exp_info_date
                  THEN [acc EXCEPT !.log = Append(@, InfoExpiring(term, ctx.filter_name))]
                  ELSE acc
      IN IF term.expiration # 0 /\ term.expiration <= Today
         THEN CiscoTermLoop(pol, fi, ti + 1, ctx,
                  [acc2 EXCEPT !.log = Append(@, WarnExpired(term, ctx.filter_name))])
         ELSE CiscoTermLoop(pol, fi, ti + 1, ctx,
                  [acc2 EXCEPT !.new_terms =
                      Append(@, CiscoTerm(fi, ti,
                                    IF ctx.next_filter = "inet6" THEN 6 ELSE 4))])

(* The loop over filter_list; st is [policies, err, log], name is the      *)
(* filter_name, which an inet6 pass of a mixed filter changes.             *)
RECURSIVE CiscoNextFilterLoop(_, _, _, _, _, _, _)
CiscoNextFilterLoop(pol, fi, filter_type, filter_list, name, exp_info_date, st) ==
    IF filter_list = <<>> THEN st
    ELSE
      LET next_filter == Head(filter_list)
          acc == CiscoTermLoop(pol, fi, 1,
                     [filter_name |-> name, next_filter |-> next_filter,
                      exp_info_date |-> exp_info_date],
                     [new_terms |-> <<>>, log |-> st.log])
          name1 == IF filter_type = "mixed" /\ next_filter = "inet6"
                   THEN <<"ipv6-", name>> ELSE name
      IN CiscoNextFilterLoop(pol, fi, filter_type, Tail(filter_list), name1,
             exp_info_date,
             [policies |-> Append(st.policies,
                               [fi |-> fi, filter_name |-> name1,
                                filter_list |-> <<next_filter>>,
                                terms |-> acc.new_terms]),
              err |-> st.err, log |-> acc.log])

(* The loop over pol.filters.                                              *)
RECURSIVE CiscoFilterLoop(_, _, _, _)
CiscoFilterLoop(pol, fi, exp_info_date, st) ==
    IF st.err # NoError \/ fi > Len(pol) THEN st
    ELSE
      LET header == pol[fi].header
          filter_options == FilterOptions(header, PLATFORM_CISCO)
          filter_name == <<FilterName(header, PLATFORM_CISCO)>>
          filter_type == IF Len(filter_options) > 1 THEN filter_options[2]
                         ELSE "extended"
          filter_list == IF filter_type = "mixed" THEN <<"extended", "inet6">>
                         ELSE <<filter_type>>
      IN IF PLATFORM_CISCO \notin header.platforms
         THEN CiscoFilterLoop(pol, fi + 1, exp_info_date, st)
         ELSE IF filter_type \notin cisco_good_filters
         THEN [st EXCEPT !.err = "UnsupportedCiscoAccessListError"]
         ELSE CiscoFilterLoop(pol, fi + 1, exp_info_date,
                  CiscoNextFilterLoop(pol, fi, filter_type, filter_list,
                                      filter_name, exp_info_date, st))

(* Cisco._TranslatePolicy.                                                 *)
CiscoTranslatePolicy(pol, exp_info) ==
    CiscoFilterLoop(pol, 1, Today + 7 * exp_info,
        [policies |-> <<>>, err |-> NoError, log |-> <<>>])

(* Cisco._AppendTargetByFilterType for the filter types of the model.      *)
AppendTargetByFilterType(filter_name, filter_type) ==
    IF filter_type = "inet6"
    THEN <<[kind |-> "no_acl", family |-> "ipv6", name |-> filter_name],
           [kind |-> "acl", family |-> "ipv6", name |-> filter_name]>>
    ELSE <<[kind |-> "no_acl", family |-> "ip extended", name |-> filter_name],
           [kind |-> "acl", family |-> "ip extended", name |-> filter_name]>>

(* The loop over the terms of one filter of Cisco.__str__;                 *)
(* acc is [target, terms, pol].                                            *)
RECURSIVE CiscoStrTerms(_, _)
CiscoStrTerms(k, acc) ==
    IF k > Len(acc.terms) THEN acc
    ELSE LET t == acc.terms[k]
             r == CiscoTermStr(t, acc.pol[t.fi].terms[t.ti])
         IN CiscoStrTerms(k + 1,
                [target |-> IF r.lines # <<>>
                            THEN Append(acc.target, [kind |-> "term", lines |-> r.lines])
                            ELSE acc.target,
                 terms |-> [acc.terms EXCEPT ![k].options = r.options],
                 pol |-> [acc.pol EXCEPT ![t.fi].terms[t.ti].comment = r.comment]])

(* The loop over self.cisco_policies; acc is [target, policies, pol].      *)
RECURSIVE CiscoStrLoop(_, _)
CiscoStrLoop(n, acc) ==
    IF n > Len(acc.policies) THEN acc
    ELSE
      LET p == acc.policies[n]
          header == acc.pol[p.fi].header
          r == CiscoStrTerms(1,
                   [target |-> acc.target
                               \o AppendTargetByFilterType(p.filter_name, p.filter_list[1])
                               \o <<[kind |-> "repository_tags"]>>
                               \o [i \in 1..Len(header.comment) |->
                                      [kind |-> "remark", words |-> header.comment[i]]],
                    terms |-> p.terms, pol |-> acc.pol])
      IN CiscoStrLoop(n + 1,
             [target |-> r.target \o <<[kind |-> "blank"], [kind |-> "exit"],
                                       [kind |-> "blank"]>>,
              policies |-> [acc.policies EXCEPT ![n].terms = r.terms],
              pol |-> r.pol])

(* Cisco.__str__: [err, target, policies, pol].                            *)
CiscoStr(policies, pol) ==
    LET r == CiscoStrLoop(1, [target |-> <<[kind |-> "repository_tags"]>>,
                              policies |-> policies, pol |-> pol])
    IN [err |-> NoError, target |-> r.target, policies |-> r.policies, pol |-> r.pol]

----------------------------------------------------------------------------
(* NSX-V: class Term and class Nsxv (lib/nsxv.py).  The terms of the model *)
(* have no addresses, no source ports and no icmp types.                   *)

PLATFORM_NSXV == "nsxv"

NSXV_ACTION_TABLE(action) ==
    CASE action = "accept" -> "allow"
      [] action = "deny" -> "deny"
      [] action = "reject" -> "reject"
      [] action = "reject-with-tcp-rst" -> "reject"
      [] OTHER -> "None"

NSXV_SUPPORTED_KEYWORDS ==
    {"name", "action", "comment", "destination_address",
     "destination_address_exclude", "destination_port", "expiration",
     "icmp_type", "protocol", "source_address", "source_address_exclude",
     "source_port", "logging"}

NsxvTerm(fi, ti, filter_type, af) ==
    [fi |-> fi, ti |-> ti, filter_type |-> filter_type, af |-> af]

(* The fields of a term that hold a value: the keys of term.__dict__ whose *)
(* value is true.                                                          *)
TermKeywordsSet(term) ==
    {key \in DOMAIN term :
        IF key = "expiration" THEN term[key] # 0
        ELSE IF key \in {"name", "owner"} THEN term[key] # ""
        ELSE term[key] # <<>>}

WarnUnsupported(term, keywords) ==
    [level |-> "warn", what |-> "unsupported", term |-> term.name, filter |-> keywords]

(* Term._ServiceToString for a protocol that carries no icmp type.         *)
ServiceToString(proto, dports) ==
    IF proto = "1" \/ proto = "58"
    THEN [protocol |-> proto, dports |-> <<>>]
    ELSE [protocol |-> proto,
          dports |-> [i \in 1..Len(dports) |-> NormPort(dports[i])]]

(* Term.__str__: [err, lines, log].                                        *)
NsxvTermStr(t, term) ==
    LET skip == [err |-> NoError, lines |-> <<>>, log |-> <<>>]
    IN IF term.platform # <<>> /\ ~Contains(term.platform, "nsxv") THEN skip
       ELSE IF term.platform_exclude # <<>> /\ Contains(term.platform_exclude, "nsxv")
       THEN skip
       ELSE IF \/ t.af = 6 /\ Contains(term.protocol, "icmp")
               \/ t.af = 4 /\ Contains(term.protocol, "icmpv6")
       THEN skip
       ELSE IF term.verbatim # <<>>
       THEN [skip EXCEPT !.err = "NsxvAclTermError"]
       ELSE IF term.option # <<>>
       THEN (IF StartsWith(term.option[1], "tcp-established")
                \/ StartsWith(term.option[1], "established")
             THEN skip
             ELSE [skip EXCEPT !.err = "NsxvAclTermError"])
       ELSE
         LET unsupported_keywords == TermKeywordsSet(term) \ NSXV_SUPPORTED_KEYWORDS
             protocol == [i \in 1..Len(term.protocol) |->
                             IF PROTO_MAP(term.protocol[i]) # "None"
                             THEN PROTO_MAP(term.protocol[i])
                             ELSE term.protocol[i]]
             services == [i \in 1..Len(SelectSeq(protocol, LAMBDA x : x # "any")) |->
                             ServiceToString(
                                 SelectSeq(protocol, LAMBDA x : x # "any")[i],
                                 term.destination_port)]
         IN [err |-> NoError,
             lines |-> <<[kind |-> "rule",
                          logged |-> term.logging # <<>>,
                          name |-> term.name,
                          action |-> NSXV_ACTION_TABLE(term.action[1]),
                          services |-> services,
                          notes |-> term.comment]>>,
             log |-> IF unsupported_keywords # {}
                     THEN <<WarnUnsupported(term, unsupported_keywords)>>
                     ELSE <<>>]

nsxv_good_filters == {"inet", "inet6", "mixed"}

WarnAction(term, filter_name) ==
    [level |-> "warn", what |-> "action", term |-> term.name, filter |-> filter_name]

(* The loop over the terms of one filter;                                  *)
(* acc is [term_names, new_terms, err, log].                               *)
RECURSIVE NsxvTermLoop(_, _, _, _, _)
NsxvTermLoop(pol, fi, ti, ctx, acc) ==
    IF acc.err # NoError \/ ti > Len(pol[fi].terms) THEN acc
    ELSE
      LET term == pol[fi].terms[ti]
      IN IF term.name \in acc.term_names
         THEN [acc EXCEPT !.err = "NsxvDuplicateTermError"]
         ELSE
           LET acc1 == [acc EXCEPT !.term_names = @ \cup {term.name}]
               acc2 == IF term.expiration # 0 /\ term.expiration <= ctx.exp_info_date
                       THEN [acc1 EXCEPT !.log =
                                Append(@, InfoExpiring(term, ctx.filter_name))]
                       ELSE acc1
           IN IF term.expiration # 0 /\ term.expiration <= Today
              THEN NsxvTermLoop(pol, fi, ti + 1, ctx,
                       [acc2 EXCEPT !.log =
                           Append(@, WarnExpired(term, ctx.filter_name))])
              ELSE IF NSXV_ACTION_TABLE(term.action[1]) = "None"
              THEN NsxvTermLoop(pol, fi, ti + 1, ctx,
                       [acc2 EXCEPT !.log =
                           Append(@, WarnAction(term, ctx.filter_name))])
              ELSE NsxvTermLoop(pol, fi, ti + 1, ctx,
                       [acc2 EXCEPT !.new_terms =
                           Append(@, NsxvTerm(fi, ti, ctx.filter_type,
                                      IF ctx.filter_type = "inet6" THEN 6
                                      ELSE IF ctx.filter_type = "mixed"
                                              /\ Contains(term.protocol, "icmpv6")
                                      THEN 6 ELSE 4))])

(* The loop over pol.filters; st is [policies, err, log].                  *)
RECURSIVE NsxvFilterLoop(_, _, _, _)
NsxvFilterLoop(pol, fi, exp_info_date, st) ==
    IF st.err # NoError \/ fi > Len(pol) THEN st
    ELSE
      LET header == pol[fi].header
          filter_options == FilterOptions(header, PLATFORM_NSXV)
          filter_name == FilterName(header, PLATFORM_NSXV)
          filter_type == filter_options[1]
      IN IF PLATFORM_NSXV \notin header.platforms
         THEN NsxvFilterLoop(pol, fi + 1, exp_info_date, st)
         ELSE IF filter_type \notin nsxv_good_filters
         THEN [st EXCEPT !.err = "UnsupportedNsxvAccessListError"]
         ELSE
           LET acc == NsxvTermLoop(pol, fi, 1,
                          [filter_name |-> filter_name, filter_type |-> filter_type,
                           exp_info_date |-> exp_info_date],
                          [term_names |-> {}, new_terms |-> <<>>, err |-> NoError,
                           log |-> st.log])
           IN NsxvFilterLoop(pol, fi + 1, exp_info_date,
                  [policies |-> IF acc.err # NoError THEN st.policies
                                ELSE Append(st.policies,
                                         [fi |-> fi, filter_name |-> filter_name,
                                          filter_list |-> <<filter_type>>,
                                          terms |-> acc.new_terms]),
                   err |-> acc.err, log |-> acc.log])

(* Nsxv._TranslatePolicy.                                                  *)
NsxvTranslatePolicy(pol, exp_info) ==
    NsxvFilterLoop(pol, 1, Today + 7 * exp_info,
        [policies |-> <<>>, err |-> NoError, log |-> <<>>])

WarnSectionId(fi) ==
    [level |-> "warn", what |-> "section-id", term |-> "", filter |-> fi]

(* The loop over the terms of one filter of Nsxv.__str__;                  *)
(* acc is [err, target, log].                                              *)
RECURSIVE NsxvStrTerms(_, _, _, _)
NsxvStrTerms(pol, terms, k, acc) ==
    IF acc.err # NoError \/ k > Len(terms) THEN acc
    ELSE LET t == terms[k]
             r == NsxvTermStr(t, pol[t.fi].terms[t.ti])
         IN NsxvStrTerms(pol, terms, k + 1,
                [err |-> r.err,
                 target |-> IF r.lines # <<>>
                            THEN Append(acc.target, [kind |-> "term", lines |-> r.lines])
                            ELSE acc.target,
                 log |-> acc.log \o r.log])

(* The loop over self.nsxv_policies.                                       *)
RECURSIVE NsxvStrLoop(_, _, _, _)
NsxvStrLoop(pol, policies, n, acc) ==
    IF acc.err # NoError \/ n > Len(policies) THEN acc
    ELSE
      LET p == policies[n]
          header == pol[p.fi].header
          filter_options == FilterOptions(header, PLATFORM_NSXV)
          has_id == Len(filter_options) > 1
          r == NsxvStrTerms(pol, p.terms, 1,
                   [err |-> NoError,
                    target |-> Append(acc.target,
                                   [kind |-> "section",
                                    id |-> IF has_id THEN <<filter_options[2]>> ELSE <<>>,
                                    name |-> header.comment]),
                    log |-> IF has_id THEN acc.log
                            ELSE Append(acc.log, WarnSectionId(p.fi))])
      IN NsxvStrLoop(pol, policies, n + 1,
             [r EXCEPT !.target = @ \o <<[kind |-> "blank"], [kind |-> "section_end"],
                                         [kind |-> "blank"]>>])

(* Nsxv.__str__: [err, target, log].                                       *)
NsxvStr(policies, pol) ==
    NsxvStrLoop(pol, policies, 1,
        [err |-> NoError,
         target |-> <<[kind |-> "comment_start"], [kind |-> "repository_tags"],
                      [kind |-> "comment_end"]>>,
         log |-> <<>>])

----------------------------------------------------------------------------
(* Palo Alto: classes Service, Rule and PaloAltoFW                         *)
(* (capirca/lib/paloaltofw.py).  Service.service_map belongs to the class: *)
(* it is one dictionary for all the instances, kept here as the sequence   *)
(* of its entries in insertion order.  The terms of the model have no      *)
(* stateless_reply and names shorter than the limits on names; the address *)
(* book and the applications are one line each of the text.                *)

PLATFORM_PALOALTO == "paloalto"

PALOALTO_ACTIONS(action) ==
    CASE action = "accept" -> "allow"
      [] action = "deny" -> "deny"
      [] action = "reject" -> "reset-client"
      [] action = "reject-with-tcp-rst" -> "reset-client"
      [] OTHER -> "None"

SUPPORTED_AF == {"inet", "inet6", "mixed"}

SUPPORTED_PROTO_NAMES == {"tcp", "udp", "icmp", "icmpv6", "sctp", "igmp", "gre"}

InServiceMap(smap, ports, protocol) ==
    \E i \in 1..Len(smap) : smap[i].ports = ports /\ smap[i].protocol = protocol

ServiceMapName(smap, ports, protocol) ==
    LET i == CHOOSE j \in 1..Len(smap) :
                 smap[j].ports = ports /\ smap[j].protocol = protocol
    IN smap[i].name

(* Service.__init__: [err, service_map].                                   *)
Service(smap, ports, service_name, protocol) ==
    LET final_service_name == <<"service-", service_name, protocol>>
    IN IF InServiceMap(smap, ports, protocol)
       THEN [err |-> "PaloAltoFWDuplicateServiceError", service_map |-> smap]
       ELSE IF \E i \in 1..Len(smap) : smap[i].name = final_service_name
       THEN [err |-> "PaloAltoFWDuplicateServiceError", service_map |-> smap]
       ELSE [err |-> NoError,
             service_map |-> Append(smap, [ports |-> ports, protocol |-> protocol,
                                           name |-> final_service_name])]

(* The loop of Rule.ModifyOptions over term.protocol that looks a service  *)
(* up or creates it; acc is [err, service_map, service].                   *)
RECURSIVE RuleServiceLoop(_, _, _, _)
RuleServiceLoop(term, ports, i, acc) ==
    IF acc.err # NoError \/ i > Len(term.protocol) THEN acc
    ELSE LET p == term.protocol[i]
         IN IF InServiceMap(acc.service_map, ports, p)
            THEN RuleServiceLoop(term, ports, i + 1,
                     [acc EXCEPT !.service =
                         Append(@, ServiceMapName(acc.service_map, ports, p))])
            ELSE LET r == Service(acc.service_map, ports, term.name, p)
                 IN RuleServiceLoop(term, ports, i + 1,
                        [err |-> r.err, service_map |-> r.service_map,
                         service |-> IF r.err # NoError THEN acc.service
                                     ELSE Append(acc.service,
                                              ServiceMapName(r.service_map, ports, p))])

(* The loop of Rule.ModifyOptions that adds the applications of the        *)
(* protocols.                                                              *)
RECURSIVE RuleApplicationLoop(_, _)
RuleApplicationLoop(protocol, application) ==
    IF protocol = <<>> THEN application
    ELSE LET proto_name == Head(protocol)
         IN RuleApplicationLoop(Tail(protocol),
                IF proto_name \in {"icmp", "icmpv6"} THEN application
                ELSE IF proto_name \in {"igmp", "sctp", "gre"}
                THEN (IF ~Contains(application, proto_name)
                      THEN Append(application, proto_name) ELSE application)
                ELSE IF proto_name \in {"tcp", "udp"}
                THEN (IF ~Contains(application, "any")
                      THEN Append(application, "any") ELSE application)
                ELSE application)

RECURSIVE RuleLogging(_, _)
RuleLogging(items, logging) ==
    IF items = <<>> THEN logging
    ELSE IF Head(items) = "disable" THEN <<"disable">>
    ELSE IF Head(items) = "log-both"
    THEN RuleLogging(Tail(items), logging \o <<"log-start", "log-end">>)
    ELSE IF Head(items) \in {"True", "true", "syslog", "local"}
    THEN RuleLogging(Tail(items), Append(logging, "log-end"))
    ELSE RuleLogging(Tail(items), logging)

(* An address of a Palo Alto term is [version, prefix, parent_token].      *)
(* sorted(set of parent tokens), for the tokens of the model.              *)
TOKENS == <<"NET_A", "NET_B", "NET_C">>

SortedTokens(addresses) ==
    SelectSeq(TOKENS,
        LAMBDA token : \E i \in 1..Len(addresses) : addresses[i].parent_token = token)

(* Rule.__init__ with Rule.ModifyOptions: [err, service_map, options].     *)
(* options.description is the comment list of the term itself when the     *)
(* term has a comment: description_of names the term.                      *)
Rule(smap, from_zone, to_zone, fi, ti, term) ==
    LET ports == [i \in 1..Len(term.destination_port) |->
                     NormPort(term.destination_port[i])]
        sv == IF term.destination_port # <<>>
              THEN RuleServiceLoop(term, ports, 1,
                       [err |-> NoError, service_map |-> smap, service |-> <<>>])
              ELSE [err |-> NoError, service_map |-> smap, service |-> <<>>]
    IN [err |-> sv.err, service_map |-> sv.service_map,
        options |->
            [name |-> term.name,
             from_zone |-> <<from_zone>>, to_zone |-> <<to_zone>>,
             description_of |-> IF term.comment # <<>> THEN <<fi, ti>> ELSE <<>>,
             source |-> IF term.source_address # <<>>
                        THEN SortedTokens(term.source_address) ELSE <<"any">>,
             destination |-> IF term.destination_address # <<>>
                             THEN SortedTokens(term.destination_address)
                             ELSE <<"any">>,
             action |-> term.action[1],
             option |-> term.option,
             application |-> RuleApplicationLoop(term.protocol, term.pan_application),
             service |-> sv.service,
             logging |-> RuleLogging(term.logging, <<>>)]]

WarnSkipped(term, why) ==
    [level |-> "warn", what |-> why, term |-> term.name, filter |-> ""]

(* nacaddr.RemoveAddressFromList: the exclude address is subtracted from   *)
(* every address of its version; an address that lies in it is dropped,    *)
(* what is left of an address that it lies in keeps the token.             *)
RemoveAddressFromList(superset, exclude) ==
    Flatten([k \in 1..Len(superset) |->
        IF superset[k].version # exclude.version THEN <<superset[k]>>
        ELSE LET left == ExcludeAddrs(<<superset[k].prefix>>, <<exclude.prefix>>)
             IN [j \in 1..Len(left) |-> [superset[k] EXCEPT !.prefix = left[j]]]])

(* for i in term.source_address_exclude:                                   *)
(*   term.source_address = nacaddr.RemoveAddressFromList(..., i)           *)
RECURSIVE RemoveExcluded(_, _)
RemoveExcluded(addresses, excludes) ==
    IF excludes = <<>> THEN addresses
    ELSE RemoveExcluded(RemoveAddressFromList(addresses, Head(excludes)), Tail(excludes))

(* 'ip%d-ip%d' % (v, v), 'ip%d-src-only' % v, 'ip%d-dst-only' % v and      *)
(* 'ip%d-only' % v.                                                        *)
FlowTag(v, kind) ==
    CASE kind = "ip" -> IF v = 4 THEN "ip4-ip4" ELSE "ip6-ip6"
      [] kind = "src-only" -> IF v = 4 THEN "ip4-src-only" ELSE "ip6-src-only"
      [] kind = "dst-only" -> IF v = 4 THEN "ip4-dst-only" ELSE "ip6-dst-only"
      [] kind = "only" -> IF v = 4 THEN "ip4-only" ELSE "ip6-only"

(* afc[v][side]                                                            *)
Afc(addresses, v) == Cardinality({i \in 1..Len(addresses) : addresses[i].version = v})

(* One pass of the loop 'for v in [4, 6]' that tags the flows, without the *)
(* '-only' tags.                                                           *)
FlowsOfVersionSideOnly(v, source_address, destination_address) ==
    LET src_any == source_address = <<>>
        dst_any == destination_address = <<>>
        src == Afc(source_address, v)
        dst == Afc(destination_address, v)
    IN IF (src > 0 \/ src_any) /\ (dst > 0 \/ dst_any) THEN <<FlowTag(v, "ip")>>
       ELSE IF src > 0 \/ src_any THEN <<FlowTag(v, "src-only")>>
       ELSE IF dst > 0 \/ dst_any THEN <<FlowTag(v, "dst-only")>>
       ELSE <<>>

(* One pass of the loop 'for v in [4, 6]' that tags the flows.             *)
FlowsOfVersion(v, source_address, destination_address) ==
    LET src_any == source_address = <<>>
        dst_any == destination_address = <<>>
        src == Afc(source_address, v)
        dst == Afc(destination_address, v)
    IN IF src_any /\ dst_any THEN <<FlowTag(v, "ip")>>
       ELSE IF (src = 0 /\ ~src_any) /\ (dst = 0 /\ ~dst_any) THEN <<>>
       ELSE IF (src > 0 \/ src_any) /\ (dst > 0 \/ dst_any) THEN <<FlowTag(v, "ip")>>
       ELSE IF (src > 0 \/ src_any) /\ dst = 0
       THEN <<FlowTag(v, "src-only"), FlowTag(v, "only")>>
       ELSE IF src = 0 /\ (dst > 0 \/ dst_any)
       THEN <<FlowTag(v, "dst-only"), FlowTag(v, "only")>>
       ELSE <<>>

Flows(source_address, destination_address) ==
    FlowsOfVersion(4, source_address, destination_address)
    \o FlowsOfVersion(6, source_address, destination_address)

(* The names policy.Term.ICMP_TYPE[4] and ICMP_TYPE[6] know, of those the  *)
(* model's terms use.                                                      *)
ICMP_TYPE(v) == {"echo-request", "echo-reply"}

(* 'icmp-%s' % name and 'icmp6-%s' % name                                  *)
IcmpAppName(icmp_version, name) ==
    <<IF icmp_version = "icmp" THEN "icmp-" ELSE "icmp6-", name>>

(* The loop over term.icmp_type for one icmp version;                      *)
(* st is [err, pan_application, application_refs, applications].           *)
RECURSIVE IcmpTypeLoop(_, _, _)
IcmpTypeLoop(icmp_version, icmp_type, st) ==
    IF icmp_type = <<>> \/ st.err # NoError THEN st
    ELSE LET icmp_app_name == IcmpAppName(icmp_version, Head(icmp_type))
         IN IF Head(icmp_type) \notin ICMP_TYPE(IF icmp_version = "icmp" THEN 4 ELSE 6)
            THEN [st EXCEPT !.err = "PaloAltoFWBadIcmpTypeError"]
            ELSE IF icmp_app_name \in st.application_refs
            THEN IcmpTypeLoop(icmp_version, Tail(icmp_type), st)
            ELSE IcmpTypeLoop(icmp_version, Tail(icmp_type),
                     [st EXCEPT
                         !.application_refs = @ \cup {icmp_app_name},
                         !.applications = Append(@, icmp_app_name),
                         !.pan_application =
                             IF Contains(@, icmp_app_name) THEN @
                             ELSE Append(@, icmp_app_name)])

(* One pass of the loop 'for icmp_version in ["icmp", "icmpv6"]' for a     *)
(* term that names icmp or icmpv6.                                         *)
IcmpVersion(icmp_version, term, filter_type, flows, st) ==
    IF st.err # NoError THEN st
    ELSE IF icmp_version = "icmp" /\ ~Contains(flows, "ip4-ip4") THEN st
    ELSE IF icmp_version = "icmpv6" /\ ~Contains(flows, "ip6-ip6") THEN st
    ELSE IF icmp_version = "icmp" /\ filter_type = "inet6" THEN st
    ELSE IF icmp_version = "icmpv6" /\ filter_type = "inet" THEN st
    ELSE IF term.icmp_type = <<>>
    THEN [st EXCEPT !.pan_application =
             Append(@, IF icmp_version = "icmp" THEN "icmp" ELSE "ipv6-icmp")]
    ELSE IcmpTypeLoop(icmp_version, term.icmp_type, st)

(* The handling of ICMP and ICMPv6 terms:                                  *)
(* [err, pan_application, application_refs, applications].                 *)
IcmpApplications(term, filter_type, flows, application_refs, applications) ==
    LET st == [err |-> NoError, pan_application |-> term.pan_application,
               application_refs |-> application_refs, applications |-> applications]
    IN IF ~Contains(term.protocol, "icmp") /\ ~Contains(term.protocol, "icmpv6")
       THEN IF term.icmp_type # <<>> THEN [st EXCEPT !.err = "UnsupportedFilterError"]
            ELSE st
       ELSE IcmpVersion("icmpv6", term, filter_type, flows,
                IcmpVersion("icmp", term, filter_type, flows, st))

(* The end of the loop body for a term that is rendered.                   *)
PaloAltoTermKept(fi, ti, acc, term, ic) ==
    IF ic.err # NoError THEN [acc EXCEPT !.err = ic.err]
    ELSE LET acc3 == [acc EXCEPT !.pol[fi].terms[ti].pan_application = ic.pan_application,
                                 !.application_refs = ic.application_refs,
                                 !.applications = ic.applications]
         IN IF \E i \in 1..Len(term.protocol) :
                   term.protocol[i] \notin SUPPORTED_PROTO_NAMES
            THEN [acc3 EXCEPT !.err = "PaloAltoFWUnsupportedProtocolError"]
            ELSE [acc3 EXCEPT !.new_terms = Append(@, [fi |-> fi, ti |-> ti])]

(* The checks of the flows against the filter type.                        *)
PaloAltoTermFlows(fi, ti, ctx, acc, term, flows) ==
    LET skip(why) == [acc EXCEPT !.log = Append(@, WarnSkipped(term, why))]
        kept == PaloAltoTermKept(fi, ti, acc, term,
                    IcmpApplications(term, ctx.filter_type, flows,
                                     acc.application_refs, acc.applications))
    IN IF ctx.filter_type = "inet"
       THEN IF Contains(term.protocol, "icmpv6") THEN skip("icmpv6")
            ELSE IF ~Contains(flows, "ip4-ip4") THEN skip("flows")
            ELSE kept
       ELSE IF ctx.filter_type = "inet6"
       THEN IF Contains(term.protocol, "icmp") THEN skip("icmp")
            ELSE IF ~Contains(flows, "ip6-ip6") THEN skip("flows")
            ELSE kept
       ELSE IF Contains(flows, "ip4-ip4") \/ Contains(flows, "ip6-ip6") THEN kept
       ELSE IF Contains(flows, "ip4-only") /\ Contains(flows, "ip6-only")
       THEN skip("flows")
       ELSE [kept EXCEPT !.log = Append(@, WarnSkipped(term, "invalid flows"))]

(* The term after the two loops over its exclude lists.                    *)
WithoutExcluded(term) ==
    [term EXCEPT
        !.source_address = RemoveExcluded(@, term.source_address_exclude),
        !.destination_address = RemoveExcluded(@, term.destination_address_exclude)]

PaloAltoTermAddresses(fi, ti, ctx, acc, term) ==
    PaloAltoTermFlows(fi, ti, ctx, [acc EXCEPT !.pol[fi].terms[ti] = term], term,
                      Flows(term.source_address, term.destination_address))

(* The body of the loop over the terms of one filter; acc is               *)
(* [term_dup_check, new_terms, err, log, pol, application_refs,            *)
(* applications].                                                          *)
PaloAltoTermStep(fi, ti, ctx, acc) ==
    LET term == acc.pol[fi].terms[ti]
        skip(why) == [acc EXCEPT !.log = Append(@, WarnSkipped(term, why))]
    IN IF Contains(term.option, "established") THEN skip("established")
       ELSE IF Contains(term.option, "tcp-established") THEN skip("tcp-established")
       ELSE IF term.name \in acc.term_dup_check
       THEN [acc EXCEPT !.err = "PaloAltoFWDuplicateTermError"]
       ELSE
         LET acc1 == [acc EXCEPT !.term_dup_check = @ \cup {term.name}]
             acc2 == IF term.expiration # 0 /\ term.expiration <= ctx.exp_info_date
                     THEN [acc1 EXCEPT !.log = Append(@, InfoExpiring(term, ""))]
                     ELSE acc1
         IN IF term.expiration # 0 /\ term.expiration <= Today
            THEN [acc2 EXCEPT !.log = Append(@, WarnExpired(term, ""))]
            ELSE PaloAltoTermAddresses(fi, ti, ctx, acc2, WithoutExcluded(term))

RECURSIVE PaloAltoTermLoop(_, _, _, _)
PaloAltoTermLoop(fi, ti, ctx, acc) ==
    IF acc.err # NoError \/ ti > Len(acc.pol[fi].terms) THEN acc
    ELSE PaloAltoTermLoop(fi, ti + 1, ctx, PaloAltoTermStep(fi, ti, ctx, acc))

(* The loop that makes the ruleset of one filter from new_terms;           *)
(* acc is [err, service_map, ruleset].  ruleset is a dictionary keyed by   *)
(* the name of the term, in insertion order.                               *)
RECURSIVE PaloAltoRuleLoop(_, _, _, _, _)
PaloAltoRuleLoop(pol, new_terms, ctx, k, acc) ==
    IF acc.err # NoError \/ k > Len(new_terms) THEN acc
    ELSE
      LET t == new_terms[k]
          r == Rule(acc.service_map, ctx.from_zone, ctx.to_zone, t.fi, t.ti,
                    pol[t.fi].terms[t.ti])
      IN PaloAltoRuleLoop(pol, new_terms, ctx, k + 1,
             [err |-> r.err, service_map |-> r.service_map,
              ruleset |-> IF r.err # NoError THEN acc.ruleset
                          ELSE IF \E i \in 1..Len(acc.ruleset) :
                                     acc.ruleset[i].name = r.options.name
                          THEN [i \in 1..Len(acc.ruleset) |->
                                   IF acc.ruleset[i].name = r.options.name
                                   THEN r.options ELSE acc.ruleset[i]]
                          ELSE Append(acc.ruleset, r.options)])

(* The loop over pol.filters; st is [policies, err, log, pol, service_map,  *)
(* application_refs, applications].                                        *)
RECURSIVE PaloAltoFilterLoop(_, _, _)
PaloAltoFilterLoop(fi, exp_info_date, st) ==
    IF st.err # NoError \/ fi > Len(st.pol) THEN st
    ELSE
      LET header == st.pol[fi].header
          filter_options == FilterOptions(header, PLATFORM_PALOALTO)
          filter_type == IF Len(filter_options) > 4 THEN filter_options[5] ELSE "inet"
      IN IF PLATFORM_PALOALTO \notin header.platforms
         THEN PaloAltoFilterLoop(fi + 1, exp_info_date, st)
         ELSE IF \/ Len(filter_options) < 4
                 \/ filter_options[1] # "from-zone"
                 \/ filter_options[3] # "to-zone"
         THEN [st EXCEPT !.err = "UnsupportedFilterError"]
         ELSE IF filter_type \notin SUPPORTED_AF
         THEN [st EXCEPT !.err = "UnsupportedHeaderError"]
         ELSE
           LET ctx == [from_zone |-> filter_options[2], to_zone |-> filter_options[4],
                       filter_type |-> filter_type, exp_info_date |-> exp_info_date]
               acc == PaloAltoTermLoop(fi, 1, ctx,
                          [term_dup_check |-> {}, new_terms |-> <<>>, err |-> NoError,
                           log |-> st.log, pol |-> st.pol,
                           application_refs |-> st.application_refs,
                           applications |-> st.applications])
               rl == IF acc.err # NoError
                     THEN [err |-> acc.err, service_map |-> st.service_map,
                           ruleset |-> <<>>]
                     ELSE PaloAltoRuleLoop(acc.pol, acc.new_terms, ctx, 1,
                              [err |-> NoError, service_map |-> st.service_map,
                               ruleset |-> <<>>])
           IN PaloAltoFilterLoop(fi + 1, exp_info_date,
                  [policies |-> IF rl.err # NoError THEN st.policies
                                ELSE Append(st.policies,
                                         [fi |-> fi, ruleset |-> rl.ruleset,
                                          filter_options |-> filter_options]),
                   err |-> rl.err, log |-> acc.log, pol |-> acc.pol,
                   service_map |-> rl.service_map,
                   application_refs |-> acc.application_refs,
                   applications |-> acc.applications])

(* PaloAltoFW._TranslatePolicy: [policies, err, log, pol, service_map].    *)
PaloAltoTranslatePolicy(pol, smap, exp_info) ==
    PaloAltoFilterLoop(1, Today + 7 * exp_info,
        [policies |-> <<>>, err |-> NoError, log |-> <<>>, pol |-> pol,
         service_map |-> smap, application_refs |-> {}, applications |-> <<>>])

(* The rule entries of PaloAltoFW.__str__ for one filter.                  *)
PaloAltoRuleEntry(pol, options, tag_name) ==
    [kind |-> "rule", name |-> options.name,
     description |-> IF options.description_of = <<>> THEN <<>>
                     ELSE Flatten(pol[options.description_of[1]]
                                     .terms[options.description_of[2]].comment),
     to |-> options.to_zone, from |-> options.from_zone,
     source |-> options.source, destination |-> options.destination,
     service |-> IF options.service = <<>> /\ options.application = <<>>
                 THEN <<<<"any">>>>
                 ELSE IF options.service = <<>> THEN <<<<"application-default">>>>
                 ELSE options.service,
     action |-> PALOALTO_ACTIONS(options.action),
     interzone |-> SeqToSet(options.from_zone) \ SeqToSet(options.to_zone) # {},
     application |-> IF options.application = <<>> THEN <<"any">>
                     ELSE options.application,
     tag |-> tag_name,
     logging |-> options.logging]

(* PaloAltoFW.__str__: [err, target].  The services are those of           *)
(* Service.service_map.                                                    *)
PaloAltoStr(policies, pol, smap) ==
    [err |-> NoError,
     target |->
        <<[kind |-> "application"], [kind |-> "application-group"]>>
        \o [i \in 1..Len(smap) |->
               [kind |-> "service", name |-> smap[i].name,
                protocol |-> smap[i].protocol, port |-> smap[i].ports]]
        \o Flatten([n \in 1..Len(policies) |->
               [k \in 1..Len(policies[n].ruleset) |->
                   PaloAltoRuleEntry(pol, policies[n].ruleset[k],
                       IF pol[policies[n].fi].header.comment # <<>>
                       THEN <<policies[n].filter_options[2],
                              policies[n].filter_options[4]>>
                       ELSE <<>>)]])
        \o <<[kind |-> "address-group"], [kind |-> "address"], [kind |-> "tag"]>>]

----------------------------------------------------------------------------
(* Palo Alto: the order of a dictionary.  paloaltofw.py is written for     *)
(* Python 2 and Python 3.  ruleset and Service.service_map are plain       *)
(* dictionaries: Python 3 iterates them in the order of insertion, Python  *)
(* 2 in the order of the slots of its hash table, which the names decide.  *)
(* The order is taken when an entry is inserted: an insertion into a small *)
(* dictionary leaves the entries it holds where they are.                  *)

PermSeqs(s) == {[i \in 1..Len(s) |-> s[p[i]]] : p \in Permutations(1..Len(s))}

(* The orders in which the rulesets of the filters can be iterated.        *)
RECURSIVE RulesetOrders(_)
RulesetOrders(policies) ==
    IF policies = <<>> THEN {<<>>}
    ELSE {<<[Head(policies) EXCEPT !.ruleset = rs]>> \o rest :
             rs \in PermSeqs(Head(policies).ruleset),
             rest \in RulesetOrders(Tail(policies))}

(* The orders of Service.service_map after entries were inserted into old. *)
ServiceMapOrders(old, new) ==
    {s \in PermSeqs(new) : SelectSeq(s, LAMBDA e : Contains(old, e)) = old}

(* What a renderer holds after _TranslatePolicy, for each order its        *)
(* dictionaries can have.                                                  *)
DictOrders(platform, policies) ==
    IF platform = PLATFORM_PALOALTO THEN RulesetOrders(policies) ELSE {policies}

----------------------------------------------------------------------------
(* The process: policy objects, and renderer instances made from them.     *)
(* policy is the sequence of the policy objects that were loaded, policy0  *)
(* their value when they were loaded.  An instance holds the index pid of  *)
(* its policy: its terms are references into that object.                  *)
(* aclgenerator.ACLGenerator.__init__ is not among the sources: the model  *)
(* starts an instance at its call of _TranslatePolicy, and the fields of   *)
(* the terms of the model are fields that the renderers' own code reads.   *)

Platforms ==
    {PLATFORM_IPTABLES, PLATFORM_JUNIPER, PLATFORM_CISCO, PLATFORM_NSXV,
     PLATFORM_PALOALTO}

(* The constructor's call of _TranslatePolicy:                             *)
(* [policies, err, log, pol, service_map, reject].                         *)
TranslateOutcome(r, pol, smap, reject) ==
    [policies |-> r.policies, err |-> r.err, log |-> r.log, pol |-> pol,
     service_map |-> smap, reject |-> reject]

IptablesOutcome(r, pol, smap) == TranslateOutcome(r, pol, smap, r.reject)

PaloAltoOutcome(r, reject) == TranslateOutcome(r, r.pol, r.service_map, reject)

TranslateResult(platform, pol, smap, reject) ==
    CASE platform = PLATFORM_IPTABLES ->
           IptablesOutcome(IptablesTranslatePolicy(pol, reject), pol, smap)
      [] platform = PLATFORM_JUNIPER ->
           TranslateOutcome(JuniperTranslatePolicy(pol, EXP_INFO), pol, smap, reject)
      [] platform = PLATFORM_CISCO ->
           TranslateOutcome(CiscoTranslatePolicy(pol, EXP_INFO), pol, smap, reject)
      [] platform = PLATFORM_NSXV ->
           TranslateOutcome(NsxvTranslatePolicy(pol, EXP_INFO), pol, smap, reject)
      [] platform = PLATFORM_PALOALTO ->
           PaloAltoOutcome(PaloAltoTranslatePolicy(pol, smap, EXP_INFO), reject)

(* str() of an instance: [err, target, log, policies, pol]; target is <<>> *)
(* when str() raises.                                                      *)
RenderOutcome(r, log, policies, pol) ==
    [err |-> r.err, target |-> IF r.err # NoError THEN <<>> ELSE r.target,
     log |-> log, policies |-> policies, pol |-> pol]

IptablesRendered(r, pol) == RenderOutcome(r, <<>>, r.policies, pol)

TermsRendered(r) ==
    [err |-> r.err, target |-> r.target, log |-> <<>>,
     policies |-> r.policies, pol |-> r.pol]

NsxvRendered(r, policies, pol) == RenderOutcome(r, r.log, policies, pol)

PaloAltoRendered(r, policies, pol) ==
    [err |-> r.err, target |-> r.target, log |-> <<>>,
     policies |-> policies, pol |-> pol]

RenderResult(platform, policies, pol, smap, reject) ==
    CASE platform = PLATFORM_IPTABLES ->
           IptablesRendered(IptablesStr(pol, reject, 1,
               [err |-> NoError, target |-> <<>>, policies |-> policies]), pol)
      [] platform = PLATFORM_JUNIPER -> TermsRendered(JuniperStr(policies, pol))
      [] platform = PLATFORM_CISCO -> TermsRendered(CiscoStr(policies, pol))
      [] platform = PLATFORM_NSXV -> NsxvRendered(NsxvStr(policies, pol), policies, pol)
      [] platform = PLATFORM_PALOALTO ->
           PaloAltoRendered(PaloAltoStr(policies, pol, smap), policies, pol)

(* A translation that goes into the instance made last, on top of what it  *)
(* holds, when there is one.                                               *)
ConstructedOver(platform, pid, r) ==
    \E policies \in DictOrders(platform, IF r.err = NoError THEN r.policies ELSE <<>>),
       smap \in ServiceMapOrders(service_map, r.service_map) :
        /\ renderers' =
              IF renderers = <<>>
              THEN <<[platform |-> platform, pid |-> pid,
                      status |-> IF r.err = NoError THEN "translated" ELSE "failed",
                      err |-> r.err, log |-> r.log, policies |-> policies,
                      renders |-> <<>>]>>
              ELSE [renderers EXCEPT ![Len(renderers)] =
                       [@ EXCEPT !.platform = platform, !.pid = pid,
                                 !.status = IF r.err = NoError THEN "translated"
                                            ELSE "failed",
                                 !.err = r.err, !.log = @ \o r.log,
                                 !.policies = @ \o policies]]
        /\ policy' = [policy EXCEPT ![pid] = r.pol]
        /\ service_map' = smap
        /\ reject_action' = r.reject

(* The instance that the constructor leaves, and the world after it, when  *)
(* _TranslatePolicy gave r.                                                *)
Constructed(platform, pid, r) ==
    \E policies \in DictOrders(platform, IF r.err = NoError THEN r.policies ELSE <<>>),
       smap \in ServiceMapOrders(service_map, r.service_map) :
        /\ renderers' = Append(renderers,
               [platform |-> platform, pid |-> pid,
                status |-> IF r.err = NoError THEN "translated" ELSE "failed",
                err |-> r.err, log |-> r.log,
                policies |-> policies,
                renders |-> <<>>])
        /\ policy' = [policy EXCEPT ![pid] = r.pol]
        /\ service_map' = smap
        /\ reject_action' = r.reject

(* A renderer is constructed for the policy object pid.                    *)
Translate(platform, pid) ==
    /\ Len(renderers) < MaxRenderers
    /\ Constructed(platform, pid,
           TranslateResult(platform, policy[pid], service_map, reject_action))
    /\ UNCHANGED <<policy0, mp_in, mp_out, gp_in, gp_out, tmVars, ctlVars, cfg, fl>>

(* The instance i and the policy it refers to after a str() that gave r.   *)
Rendered(i, pid, r) ==
    /\ renderers' = [renderers EXCEPT
           ![i].policies = r.policies,
           ![i].renders = Append(@, [err |-> r.err, target |-> r.target,
                                      log |-> r.log])]
    /\ policy' = [policy EXCEPT ![pid] = r.pol]

InstanceRender(inst) ==
    RenderResult(inst.platform, inst.policies, policy[inst.pid],
                 service_map, reject_action)

(* str() of the instance i.                                                *)
Render(i) ==
    /\ renderers[i].status = "translated"
    /\ Len(renderers[i].renders) < MaxRenders
    /\ Rendered(i, renderers[i].pid, InstanceRender(renderers[i]))
    /\ UNCHANGED <<policy0, service_map, reject_action, mpVars, gpVars, tmVars, ctlVars, cfg, fl>>

----------------------------------------------------------------------------
(* The policies of the model.                                              *)

H4 == MkHeader("INPUT", "f1", "inet")
H6 == MkHeader("OUTPUT", "f2", "inet6")

Accept(name) == MkTerm(name, "accept")
Expiring(name, expiration) == [MkTerm(name, "deny") EXCEPT !.expiration = expiration]
TcpPort(name, port) ==
    [MkTerm(name, "accept") EXCEPT !.protocol = <<"tcp">>,
                                   !.destination_port = <<<<port, port>>>>]

OnePolicy(terms) == <<MkFilter(H4, terms)>>

(* Terms whose fields the renderers' str() works on.                       *)
OwnedTerm == [Accept("a") EXCEPT !.owner = "bob", !.comment = <<<<"c1">>>>]
FragmentTerm == [Accept("a") EXCEPT !.option = <<"first-fragment">>]
SampleTerm == [Accept("a") EXCEPT !.option = <<"sample">>]
LoggedTerm == [Accept("a") EXCEPT !.logging = <<"true">>, !.protocol = <<"udp">>]
IcmpTerm == [Accept("a") EXCEPT !.protocol = <<"icmp">>]
NsxvOnlyTerm == [Accept("a") EXCEPT !.platform = <<PLATFORM_NSXV>>]

ExpirationDates ==
    {Today - 1, Today, Today + 1, Today + 7 * EXP_INFO, Today + 7 * EXP_INFO + 1}

(* Pairs of policy objects loaded in one process.                          *)
PolicyPairs ==
    {<<OnePolicy(<<TcpPort("a", 80)>>), OnePolicy(<<TcpPort("b", 22)>>)>>,
     <<OnePolicy(<<TcpPort("a", 80)>>), OnePolicy(<<TcpPort("a", 22)>>)>>,
     <<OnePolicy(<<OwnedTerm, Accept("b")>>), OnePolicy(<<FragmentTerm>>)>>,
     <<OnePolicy(<<SampleTerm>>), OnePolicy(<<LoggedTerm>>)>>,
     <<OnePolicy(<<IcmpTerm>>), OnePolicy(<<NsxvOnlyTerm, Accept("b")>>)>>,
     <<OnePolicy(<<Accept("a"), Accept("a")>>),
       <<MkFilter(H4, <<Accept("a"), Accept("b")>>), MkFilter(H6, <<Accept("a")>>)>>>>}
    \cup {<<OnePolicy(<<Accept("a"), Expiring("b", e), Accept("c")>>),
            OnePolicy(<<Accept("a")>>)>> : e \in ExpirationDates}

(* One policy object whose terms expire or not, or are for some platforms  *)
(* only, in one filter or two.                                             *)
Gated(name, platforms) == [Accept(name) EXCEPT !.platform_exclude = platforms]

OrderPolicies ==
    {OnePolicy(<<[Accept("a") EXCEPT !.expiration = ea],
                 [Accept("b") EXCEPT !.expiration = eb],
                 [Accept("c") EXCEPT !.expiration = ec]>>) :
        ea \in {0, Today - 1, Today, Today + 1},
        eb \in {0, Today - 1, Today, Today + 1},
        ec \in {0, Today - 1, Today, Today + 1}}
    \cup {<<MkFilter(H4, <<Accept("a"), Expiring("b", Today), Accept("c")>>),
            MkFilter(H6, <<Accept("d"), Expiring("e", Today - 1), Accept("f")>>)>>,
          <<MkFilter(H6, <<Accept("a"),
                           Gated("b", <<PLATFORM_JUNIPER, PLATFORM_CISCO,
                                        PLATFORM_IPTABLES>>),
                           Accept("c")>>),
            MkFilter(H4, <<Gated("d", <<PLATFORM_NSXV>>), Accept("e")>>)>>}

WorldStart ==
    /\ policy0 = policy
    /\ renderers = <<>>
    /\ service_map = <<>>
    /\ reject_action = REJECT_INET
    /\ mp_in = <<>> /\ mp_out = <<>>
    /\ gp_in = <<>> /\ gp_out = <<>>
    /\ tm_in = <<>> /\ tm_out = <<>>
    /\ ctl_in = <<>> /\ ctl_out = <<>> /\ cfg = <<>> /\ fl = <<>>

Init ==
    /\ policy \in PolicyPairs
    /\ WorldStart

InitOrder ==
    /\ policy \in {<<p>> : p \in OrderPolicies}
    /\ WorldStart

Next ==
    \/ \E platform \in Platforms, pid \in 1..Len(policy) : Translate(platform, pid)
    \/ \E i \in 1..Len(renderers) : Render(i)

Spec == Init /\ [][Next]_vars

(* A process that loads one policy, makes one renderer of it and renders   *)
(* it.                                                                     *)
TranslateOnly(platform) ==
    /\ renderers = <<>>
    /\ Translate(platform, 1)

NextOrder ==
    \/ \E platform \in Platforms : TranslateOnly(platform)
    \/ \E i \in 1..Len(renderers) : Render(i)

SpecOrder == InitOrder /\ [][NextOrder]_vars

----------------------------------------------------------------------------
(* The contract of the renderers.                                          *)

Instances == 1..Len(renderers)

(* A process that loads two policies of which the first fails to          *)
(* translate on every platform but Cisco.                                  *)
LifePolicies ==
    {<<OnePolicy(<<Accept("a"), Accept("a")>>), OnePolicy(<<TcpPort("b", 22)>>)>>}

InitLife ==
    /\ policy \in LifePolicies
    /\ WorldStart

SpecLife == InitLife /\ [][Next]_vars

(* One step of the life of the instances: those there are stay, in their   *)
(* order; none changes its translation (status, err, platform, policy);    *)
(* only a translated instance gets a text, after those it has; a step that *)
(* makes an instance leaves the others as they are, and the new instance   *)
(* is translated or failed and has no text yet.                            *)
LifecycleStep ==
    /\ Len(renderers') >= Len(renderers)
    /\ \A i \in 1..Len(renderers) :
          /\ renderers'[i].status = renderers[i].status
          /\ renderers'[i].err = renderers[i].err
          /\ renderers'[i].platform = renderers[i].platform
          /\ renderers'[i].pid = renderers[i].pid
          /\ Len(renderers'[i].renders) >= Len(renderers[i].renders)
          /\ SubSeq(renderers'[i].renders, 1, Len(renderers[i].renders))
                = renderers[i].renders
          /\ renderers'[i].renders # renderers[i].renders
                => renderers[i].status = "translated"
          /\ renderers[i].status # "translated" => renderers'[i] = renderers[i]
          /\ Len(renderers') > Len(renderers) => renderers'[i] = renderers[i]
    /\ \A j \in (Len(renderers) + 1)..Len(renderers') :
          /\ renderers'[j].renders = <<>>
          /\ renderers'[j].status \in {"translated", "failed"}
          /\ renderers'[j].status = "translated" <=> renderers'[j].err = NoError

ErrTarget(r) == [err |-> r.err, target |-> r.target]

(* What Translate followed by Render can give for a policy in a process    *)
(* that has made no renderer before.                                       *)
FreshRenders(platform, tr) ==
    IF tr.err # NoError THEN {[err |-> tr.err, target |-> <<>>]}
    ELSE {ErrTarget(RenderResult(platform, p, tr.pol, sm, tr.reject)) :
             p \in DictOrders(platform, tr.policies),
             sm \in ServiceMapOrders(<<>>, tr.service_map)}

FreshOutputs(platform, pol) ==
    FreshRenders(platform, TranslateResult(platform, pol, <<>>, REJECT_INET))

FirstOutcome(inst, fresh) ==
    /\ inst.status = "failed" => [err |-> inst.err, target |-> <<>>] \in fresh
    /\ inst.renders # <<>> => ErrTarget(inst.renders[1]) \in fresh

(* C1: what Translate followed by Render of a policy gives on an instance  *)
(* is what it can give in a process that has made no other instance: the   *)
(* same failure of Translate, and the same text or failure of the first    *)
(* Render.                                                                 *)
C1_FreshInstanceIndependent ==
    \A i \in Instances :
        FirstOutcome(renderers[i],
                     FreshOutputs(renderers[i].platform, policy0[renderers[i].pid]))

(* C2: on an iptables, Juniper or Cisco instance every Render gives what   *)
(* the first Render gave.                                                  *)
C2_RenderIdempotent ==
    \A i \in Instances :
        renderers[i].platform \in {PLATFORM_IPTABLES, PLATFORM_JUNIPER, PLATFORM_CISCO}
        => \A j \in 1..Len(renderers[i].renders) :
               renderers[i].renders[j] = renderers[i].renders[1]

(* C3: every policy object has the value it had when it was loaded,        *)
(* whatever was translated and rendered since.                             *)
C3_PolicyUnchanged == policy = policy0

(* Two terms of one filter of the platform have the same name.             *)
HasDuplicateNames(pol, platform) ==
    \E fi \in 1..Len(pol) :
        /\ platform \in pol[fi].header.platforms
        /\ \E t1, t2 \in 1..Len(pol[fi].terms) :
               t1 # t2 /\ pol[fi].terms[t1].name = pol[fi].terms[t2].name

DuplicateNameErrors ==
    {"DuplicateTermError", "JuniperDuplicateTermError", "NsxvDuplicateTermError",
     "PaloAltoFWDuplicateTermError", "CiscoDuplicateTermError"}

(* C4: Translate of a policy with two terms of one name in a filter fails  *)
(* with a duplicate-name error, with every renderer.                       *)
C4_DuplicateNamesFail ==
    \A i \in Instances :
        HasDuplicateNames(policy0[renderers[i].pid], renderers[i].platform)
        => /\ renderers[i].status = "failed"
           /\ renderers[i].err \in DuplicateNameErrors

(* A term of a filter of NSX-V sets a field that is not among the fields   *)
(* NSX-V declares it supports.                                             *)
HasUnsupportedNsxvField(pol) ==
    \E fi \in 1..Len(pol) :
        /\ PLATFORM_NSXV \in pol[fi].header.platforms
        /\ \E ti \in 1..Len(pol[fi].terms) :
               TermKeywordsSet(pol[fi].terms[ti]) \ NSXV_SUPPORTED_KEYWORDS # {}

(* C5: Translate for NSX-V of a policy with a term that sets a field       *)
(* NSX-V does not support fails.                                           *)
C5_UnsupportedFieldFails ==
    \A i \in Instances :
        /\ renderers[i].platform = PLATFORM_NSXV
        /\ HasUnsupportedNsxvField(policy0[renderers[i].pid])
        => renderers[i].status = "failed"

----------------------------------------------------------------------------
(* Order and expiration.                                                   *)

(* The names of the terms that a rendered text holds, in the order in      *)
(* which it holds them: the chains iptables makes, Juniper's term blocks,  *)
(* Cisco's first remark of a term, the rules of NSX-V and of Palo Alto.    *)
RenderedNames(platform, target) ==
    CASE platform = PLATFORM_IPTABLES ->
           LET chains == SelectSeq(target, LAMBDA l : l.kind = "new_chain")
           IN [k \in 1..Len(chains) |-> chains[k].chain[2]]
      [] platform = PLATFORM_JUNIPER ->
           LET blocks == SelectSeq(target, LAMBDA l : l.line.kind = "term")
               opening(b) == SelectSeq(b.line.lines,
                                 LAMBDA l : l.line.kind = "open"
                                            /\ l.line.words[1] = "term")
           IN Flatten([k \in 1..Len(blocks) |->
                  [m \in 1..Len(opening(blocks[k])) |->
                      opening(blocks[k])[m].line.words[2]]])
      [] platform = PLATFORM_CISCO ->
           LET blocks == SelectSeq(target, LAMBDA l : l.kind = "term")
           IN [k \in 1..Len(blocks) |-> blocks[k].lines[2].words[1]]
      [] platform = PLATFORM_NSXV ->
           LET blocks == SelectSeq(target, LAMBDA l : l.kind = "term")
           IN [k \in 1..Len(blocks) |-> blocks[k].lines[1].name]
      [] platform = PLATFORM_PALOALTO ->
           LET rules == SelectSeq(target, LAMBDA l : l.kind = "rule")
           IN [k \in 1..Len(rules) |-> rules[k].name]

(* The names of the terms of a policy in the order of the policy: filter   *)
(* after filter, term after term.                                          *)
DeclaredNames(pol) ==
    Flatten([fi \in 1..Len(pol) |->
                [ti \in 1..Len(pol[fi].terms) |-> pol[fi].terms[ti].name]])

DistinctNames(pol) ==
    \A i, j \in 1..Len(DeclaredNames(pol)) :
        i # j => DeclaredNames(pol)[i] # DeclaredNames(pol)[j]

(* s holds elements of t, in the order of t.                               *)
RECURSIVE IsSubsequence(_, _)
IsSubsequence(s, t) ==
    IF s = <<>> THEN TRUE
    ELSE IF t = <<>> THEN FALSE
    ELSE IF Head(s) = Head(t) THEN IsSubsequence(Tail(s), Tail(t))
    ELSE IsSubsequence(s, Tail(t))

(* The term is left out of the text for the platform by its own platform   *)
(* fields.                                                                 *)
GatedOut(term, platform) ==
    \/ term.platform # <<>> /\ ~Contains(term.platform, platform)
    \/ Contains(term.platform_exclude, platform)

(* C6: the terms of a rendered text are in the order of the policy, filter *)
(* after filter and term after term, whichever terms were left out.        *)
C6_DeclaredOrder ==
    \A i \in Instances : \A j \in 1..Len(renderers[i].renders) :
        DistinctNames(policy0[renderers[i].pid])
        => IsSubsequence(
               RenderedNames(renderers[i].platform, renderers[i].renders[j].target),
               DeclaredNames(policy0[renderers[i].pid]))

Logged(log, what, name) ==
    \E k \in 1..Len(log) : log[k].what = what /\ log[k].term = name

(* C9: in a policy whose terms have distinct names and differ from a plain *)
(* term by their expiration and platform fields only, Translate succeeds;  *)
(* a term that is expired has a warning logged and is in no rendered text; *)
(* a term that is not expired, and that its platform fields do not leave   *)
(* out, is in every rendered text.                                         *)
C9_ExpiredOmitted ==
    \A i \in Instances :
        LET inst == renderers[i]
            pol == policy0[inst.pid]
        IN /\ inst.status = "translated"
           /\ \A fi \in 1..Len(pol) : \A ti \in 1..Len(pol[fi].terms) :
                 LET term == pol[fi].terms[ti]
                 IN /\ Expired(term) =>
                          /\ Logged(inst.log, "expired", term.name)
                          /\ \A j \in 1..Len(inst.renders) :
                                term.name \notin SeqToSet(
                                    RenderedNames(inst.platform, inst.renders[j].target))
                    /\ ~Expired(term) /\ ~GatedOut(term, inst.platform) =>
                          \A j \in 1..Len(inst.renders) :
                             /\ inst.renders[j].err = NoError
                             /\ term.name \in SeqToSet(
                                    RenderedNames(inst.platform, inst.renders[j].target))

(* An instance rendered a policy of which a term between two others is     *)
(* expired.                                                                *)
C9_Witness ==
    \E i \in Instances :
        LET pol == policy0[renderers[i].pid]
        IN /\ renderers[i].renders # <<>>
           /\ Expired(pol[1].terms[2])
           /\ ~Expired(pol[1].terms[1]) /\ ~Expired(pol[1].terms[3])
           /\ Logged(renderers[i].log, "expired", pol[1].terms[2].name)
           /\ Len(RenderedNames(renderers[i].platform,
                                renderers[i].renders[1].target)) >= 2

(* C10: Translate notes that a term expires soon exactly when its          *)
(* expiration is after today and at most the window of exp_info weeks      *)
(* after today.                                                            *)
C10_ExpiringNoteExact ==
    \A i \in Instances :
        LET inst == renderers[i]
            pol == policy0[inst.pid]
        IN inst.status = "translated"
           => \A fi \in 1..Len(pol) : \A ti \in 1..Len(pol[fi].terms) :
                 LET term == pol[fi].terms[ti]
                 IN DistinctNames(pol)
                    => (Logged(inst.log, "expiring", term.name)
                        <=> /\ term.expiration # 0
                            /\ Today < term.expiration
                            /\ term.expiration <= Today + 7 * EXP_INFO)

----------------------------------------------------------------------------
(* Terms that a renderer leaves out or hands through: one policy is        *)
(* loaded, one renderer is made of it and rendered.                        *)

Proto(name, protocol) == [Accept(name) EXCEPT !.protocol = <<protocol>>]

Verbatim(name, texts) == [Accept(name) EXCEPT !.verbatim = texts]

Among(header, term) == <<MkFilter(header, <<Accept("a"), term, Accept("c")>>)>>

VerbatimTexts ==
    {<<<<PLATFORM_IPTABLES, "v1">>>>,
     <<<<PLATFORM_JUNIPER, "v1">>>>,
     <<<<PLATFORM_CISCO, "v1">>>>,
     <<<<PLATFORM_IPTABLES, "v1">>, <<PLATFORM_IPTABLES, "v2">>>>,
     <<<<PLATFORM_JUNIPER, "v1">>, <<PLATFORM_CISCO, "v2">>>>,
     <<<<PLATFORM_CISCO, "v1">>, <<PLATFORM_CISCO, "v2">>>>,
     <<<<PLATFORM_CISCO, "v1">>, <<PLATFORM_IPTABLES, "v2">>,
       <<PLATFORM_JUNIPER, "v3">>>>}

FieldPolicies ==
    {Among(h, Proto("b", p)) : h \in {H4, H6}, p \in {"icmp", "icmpv6", "tcp"}}
    \cup {Among(H4, Verbatim("b", v)) : v \in VerbatimTexts}
    \cup {Among(H4, [Verbatim("b", v) EXCEPT !.protocol = <<"tcp">>]) :
             v \in VerbatimTexts}
    \cup {Among(H4, [FragmentTerm EXCEPT !.name = "b"]), Among(H4, Accept("b")),
          Among(H4, TcpPort("b", 80))}

InitFields ==
    /\ policy \in {<<p>> : p \in FieldPolicies}
    /\ WorldStart

SpecFields == InitFields /\ [][NextOrder]_vars

(* The policy without the term ti of the filter fi.                        *)
WithoutTerm(pol, fi, ti) ==
    [pol EXCEPT ![fi].terms = SubSeq(@, 1, ti - 1) \o SubSeq(@, ti + 1, Len(@))]

(* The text of the first Render of a renderer made of pol in a process     *)
(* that has made no renderer before, for iptables, Juniper and Cisco.      *)
RenderOf(platform, tr) ==
    RenderResult(platform, tr.policies, tr.pol, <<>>, tr.reject).target

FirstText(platform, pol) ==
    RenderOf(platform, TranslateResult(platform, pol, <<>>, REJECT_INET))

(* The filter is of one address family and the term names the icmp of the  *)
(* other.                                                                  *)
FamilyMismatch(header, term) ==
    \/ header.target.iptables[2] = "inet6" /\ Contains(term.protocol, "icmp")
    \/ header.target.iptables[2] = "inet" /\ Contains(term.protocol, "icmpv6")

Warnings(log, name) ==
    SelectSeq(log, LAMBDA e : e.level = "warn" /\ e.term = name)

(* C11: on iptables, Juniper and Cisco, a term that names icmp in an inet6 *)
(* filter, or icmpv6 in an inet filter, adds no line to the text (the text *)
(* is the text of the policy without the term), and Translate and Render   *)
(* log one warning for it between them.  The log keeps warnings and notes. *)
C11_MismatchSkipped ==
    \A i \in Instances :
        LET inst == renderers[i]
            pol == policy0[inst.pid]
        IN /\ inst.platform \in {PLATFORM_IPTABLES, PLATFORM_JUNIPER, PLATFORM_CISCO}
           /\ inst.renders # <<>>
           => \A fi \in 1..Len(pol) : \A ti \in 1..Len(pol[fi].terms) :
                 FamilyMismatch(pol[fi].header, pol[fi].terms[ti])
                 => /\ inst.renders[1].target
                         = FirstText(inst.platform, WithoutTerm(pol, fi, ti))
                    /\ Len(Warnings(inst.log \o inst.renders[1].log,
                                     pol[fi].terms[ti].name)) = 1

(* The lines of a text that are the lines of terms, whatever block they    *)
(* are in.                                                                 *)
TermLinesOf(platform, target) ==
    CASE platform = PLATFORM_IPTABLES -> target
      [] platform = PLATFORM_JUNIPER ->
           Flatten([k \in 1..Len(target) |->
               IF target[k].line.kind = "term"
               THEN [m \in 1..Len(target[k].line.lines) |->
                        [kind |-> target[k].line.lines[m].line.kind,
                         text |-> IF target[k].line.lines[m].line.kind = "verbatim"
                                  THEN target[k].line.lines[m].line.words[1]
                                  ELSE ""]]
               ELSE <<>>])
      [] platform = PLATFORM_CISCO ->
           Flatten([k \in 1..Len(target) |->
               IF target[k].kind = "term" THEN target[k].lines ELSE <<>>])

(* The verbatim texts a text holds, in its order.                          *)
VerbatimIn(platform, target) ==
    LET v == SelectSeq(TermLinesOf(platform, target), LAMBDA l : l.kind = "verbatim")
    IN [k \in 1..Len(v) |-> v[k].text]

(* The names of the terms for which a text holds lines made by the         *)
(* translation of the term: a chain of iptables, a term block of Juniper,  *)
(* access control entries of Cisco after the remark of the name.           *)
TranslatedNames(platform, target) ==
    CASE platform = PLATFORM_CISCO ->
           {target[k].lines[2].words[1] :
               k \in {n \in 1..Len(target) :
                         /\ target[n].kind = "term"
                         /\ \E m \in 1..Len(target[n].lines) :
                               target[n].lines[m].kind = "ace"}}
      [] OTHER -> SeqToSet(RenderedNames(platform, target))

VerbatimFor(term, platform) ==
    LET v == SelectSeq(term.verbatim, LAMBDA x : x[1] = platform)
    IN [k \in 1..Len(v) |-> v[k][2]]

(* C12: on iptables, Juniper and Cisco, the text of a policy of which one  *)
(* term has verbatim texts holds the verbatim texts for the platform, all  *)
(* of them and no other; it holds no translated lines for the term when    *)
(* the term has verbatim text for the platform, and it holds them when the *)
(* term has none for the platform.                                         *)
C12_VerbatimBypass ==
    \A i \in Instances :
        LET inst == renderers[i]
            term == policy0[inst.pid][1].terms[2]
        IN /\ inst.platform \in {PLATFORM_IPTABLES, PLATFORM_JUNIPER, PLATFORM_CISCO}
           /\ inst.renders # <<>>
           /\ term.verbatim # <<>>
           => /\ VerbatimIn(inst.platform, inst.renders[1].target)
                   = VerbatimFor(term, inst.platform)
              /\ (VerbatimFor(term, inst.platform) = <<>>)
                   <=> term.name \in TranslatedNames(inst.platform,
                                                     inst.renders[1].target)

(* The lines of the block of the term of a name in a text of Juniper, and  *)
(* the lines of its from block: those before the line that opens `then`.   *)
JuniperBlockOf(target, name) ==
    LET blocks == SelectSeq(target,
                      LAMBDA l : /\ l.line.kind = "term"
                                 /\ \E m \in 1..Len(l.line.lines) :
                                       l.line.lines[m].line = Open(<<"term", name>>))
    IN IF blocks = <<>> THEN <<>>
       ELSE [m \in 1..Len(blocks[1].line.lines) |-> blocks[1].line.lines[m].line]

JuniperFromOf(block) ==
    LET from == {m \in 1..Len(block) : block[m] = Open(<<"from">>)}
        then == {m \in 1..Len(block) : block[m] = Open(<<"then">>)}
    IN IF from = {} \/ then = {} THEN <<>>
       ELSE SubSeq(block, (CHOOSE m \in from : TRUE) + 1, (CHOOSE m \in then : TRUE) - 1)

HasFromBlock(block) == \E m \in 1..Len(block) : block[m] = Open(<<"from">>)

(* The match criteria of the terms of the model, each as the first word of *)
(* its statement: a protocol, a destination port, an ether type, or the    *)
(* matching option first-fragment.                                         *)
MatchCriteria(term, term_type) ==
    (IF term.protocol # <<>> THEN {TERM_TYPE(term_type).protocol} ELSE {})
    \cup (IF term.destination_port # <<>> THEN {"destination-port"} ELSE {})
    \cup (IF term.ether_type # <<>> THEN {"ether-type"} ELSE {})
    \cup (IF Contains(term.option, "first-fragment") THEN {"first-fragment"} ELSE {})

(* C13: in the text of Juniper the block of a term has a from block        *)
(* exactly when the term has a match criterion, and then the from block    *)
(* holds a statement for every criterion of the term.                      *)
C13_FromBlockIffCriteria ==
    \A i \in Instances :
        LET inst == renderers[i]
            term == policy0[inst.pid][1].terms[2]
            criteria == MatchCriteria(term, policy0[inst.pid][1].header.target.juniper[2])
        IN /\ inst.platform = PLATFORM_JUNIPER
           /\ inst.renders # <<>>
           /\ inst.renders[1].err = NoError
           /\ term.verbatim = <<>>
           /\ ~FamilyMismatch(policy0[inst.pid][1].header, term)
           => LET block == JuniperBlockOf(inst.renders[1].target, term.name)
              IN /\ block # <<>>
                 /\ HasFromBlock(block) <=> (criteria # {})
                 /\ \A c \in criteria :
                       \E m \in 1..Len(JuniperFromOf(block)) :
                          /\ JuniperFromOf(block)[m].words # <<>>
                          /\ JuniperFromOf(block)[m].words[1] = c

(* The part of C12 that the renderers keep: no text for another platform   *)
(* is in the text, and a term with verbatim text for the platform has no   *)
(* translated lines.                                                       *)
VerbatimNeverForeign ==
    \A i \in Instances :
        LET inst == renderers[i]
            term == policy0[inst.pid][1].terms[2]
        IN /\ inst.platform \in {PLATFORM_IPTABLES, PLATFORM_JUNIPER, PLATFORM_CISCO}
           /\ inst.renders # <<>>
           /\ term.verbatim # <<>>
           => /\ SeqToSet(VerbatimIn(inst.platform, inst.renders[1].target))
                   \subseteq SeqToSet(VerbatimFor(term, inst.platform))
              /\ term.name \notin TranslatedNames(inst.platform,
                                                   inst.renders[1].target)

----------------------------------------------------------------------------
(* iptables: Term._CheckTermLength on its own.                             *)

(* No policy and no renderer.                                              *)
WorldIdle ==
    /\ policy = <<>> /\ policy0 = <<>>
    /\ renderers = <<>>
    /\ service_map = <<>>
    /\ reject_action = REJECT_INET

(* The names of the calls: up to MaxNameWords words, some of the table,    *)
(* some not.                                                               *)
MaxNameWords == 3

NameWords ==
    {<<"e", "s", "t", "a", "b", "l", "i", "s", "h", "e", "d">>,
     <<"u", "n", "r", "e", "a", "c", "h", "a", "b", "l", "e">>,
     <<"a", "c", "c", "e", "p", "t">>,
     <<"b", "o", "g", "o", "n", "s">>,
     <<"t", "e", "r", "m", "i", "n", "a", "t", "i", "n", "g">>,
     <<"x">>}

Names == {Flatten(ws) : ws \in SeqsUpTo(NameWords, MaxNameWords)}

InitFit ==
    /\ ctl_in \in [term_name : Names, term_max_len : {TermMaxLen}, abbreviate : BOOLEAN]
    /\ ctl_out = [called |-> FALSE, err |-> NoError, name |-> <<>>]
    /\ cfg = <<>> /\ fl = <<>>
    /\ mp_in = <<>> /\ mp_out = <<>>
    /\ gp_in = <<>> /\ gp_out = <<>>
    /\ tm_in = <<>> /\ tm_out = <<>>
    /\ WorldIdle

CTLCall ==
    /\ ~ctl_out.called
    /\ ctl_out' = [called |-> TRUE,
                   err |-> CheckTermLength(ctl_in.term_name, ctl_in.term_max_len,
                                           ctl_in.abbreviate).err,
                   name |-> CheckTermLength(ctl_in.term_name, ctl_in.term_max_len,
                                            ctl_in.abbreviate).name]
    /\ UNCHANGED <<ctl_in, mpVars, gpVars, tmVars, worldVars, cfg, fl>>

NextFit == CTLCall

SpecFit == InitFit /\ [][NextFit]_vars

(* The name after the first k entries of the table were applied to it.     *)
RECURSIVE Abbreviated(_, _)
Abbreviated(name, k) ==
    IF k = 0 THEN name
    ELSE ReSub(abbreviation_table[k][1], abbreviation_table[k][2],
               Abbreviated(name, k - 1))

(* The numbers of entries after which the name fits: none but 0 when       *)
(* abbreviation is not allowed.                                            *)
FittingAfter(name, term_max_len, abbreviate) ==
    {k \in 0..(IF abbreviate THEN Len(abbreviation_table) ELSE 0) :
        Len(Abbreviated(name, k)) <= term_max_len}

Least(S) == CHOOSE k \in S : \A j \in S : k <= j

(* C14: _CheckTermLength returns a name that fits unchanged; it returns a  *)
(* longer name with the entries of the table applied in the order of the   *)
(* table, up to the first entry after which the name fits and no further,  *)
(* when abbreviation is allowed; what it returns is never longer than the  *)
(* maximum; it raises TermNameTooLongError when the name fits after no     *)
(* number of entries, or is too long and abbreviation is not allowed.      *)
C14_CheckTermLength ==
    ctl_out.called =>
        LET fitting == FittingAfter(ctl_in.term_name, ctl_in.term_max_len,
                                    ctl_in.abbreviate)
        IN /\ Len(ctl_in.term_name) <= ctl_in.term_max_len
                => ctl_out.err = NoError /\ ctl_out.name = ctl_in.term_name
           /\ fitting # {}
                => /\ ctl_out.err = NoError
                   /\ ctl_out.name = Abbreviated(ctl_in.term_name, Least(fitting))
                   /\ Len(ctl_out.name) <= ctl_in.term_max_len
           /\ fitting = {} => ctl_out.err = "TermNameTooLongError"

(* A name too long was abbreviated by an entry of the table and returned   *)
(* with a word of a later entry of the table left in it.                   *)
C14_Witness ==
    /\ ctl_out.called
    /\ ctl_in.abbreviate
    /\ Len(ctl_in.term_name) > ctl_in.term_max_len
    /\ ctl_out.err = NoError
    /\ ctl_out.name # ctl_in.term_name
    /\ ctl_out.name # AbbreviationLoopNoStop(ctl_in.term_name, 1,
                                             ctl_in.term_max_len).new_term

----------------------------------------------------------------------------
(* iptables: one Term (lib/iptables.py) on its own: Term(term, filter_name, *)
(* trackstate, filter_action, af, truncate) is constructed and str() is    *)
(* called on it, as Iptables.__str__ does for every term.                  *)

(* No address, or one prefix.                                              *)
UpToOne(S) == {<<>>} \cup {<<x>> : x \in S}

(* Terms with addresses and excluded addresses.                            *)
AddressTerms ==
    {[Accept("a") EXCEPT !.source_address = sa, !.source_address_exclude = se,
                         !.destination_address = da,
                         !.destination_address_exclude = de] :
        sa \in UpToOne(Prefixes), se \in UpToOne(Prefixes),
        da \in {<<>>, <<<<0, 1>>>>}, de \in UpToOne(Prefixes)}

(* Terms with the options for established connections.                     *)
MaxOptions == 2

OptionTerms ==
    {[Accept("a") EXCEPT !.option = o, !.protocol = p] :
        o \in SeqsUpTo({"established", "tcp-established"}, MaxOptions),
        p \in {<<>>, <<"tcp">>, <<"udp">>, <<"tcp", "udp">>}}

(* A list of r port ranges followed by s ports: 2 * r + s ports as         *)
(* _GeneratePortStatement counts them.                                     *)
PortList(r, s) ==
    [i \in 1..r |-> <<10 * i, 10 * i + 1>>] \o [i \in 1..s |-> <<1000 + i, 1000 + i>>]

PortLists == {PortList(r, s) : r \in {0, 1, 7, 8}, s \in 0..2}

(* Terms with source ports and destination ports.                          *)
PortTerms ==
    {[Accept("a") EXCEPT !.protocol = <<"tcp">>, !.source_port = sp,
                         !.destination_port = dp, !.logging = l] :
        sp \in PortLists, dp \in PortLists, l \in {<<>>, <<"true">>}}

TermCalls ==
    [term : AddressTerms, filter_name : {"INPUT"}, trackstate : {FALSE},
     filter_action : {"ACCEPT"}, af : {"inet"}]
    \cup [term : OptionTerms, filter_name : {"INPUT"}, trackstate : BOOLEAN,
          filter_action : {"ACCEPT"}, af : {"inet"}]
    \cup [term : PortTerms, filter_name : {"INPUT"}, trackstate : {FALSE},
          filter_action : {"ACCEPT"}, af : {"inet"}]

InitTerm ==
    /\ tm_in \in TermCalls
    /\ tm_out = [made |-> FALSE, t |-> <<>>, strs |-> <<>>]
    /\ mp_in = <<>> /\ mp_out = <<>>
    /\ gp_in = <<>> /\ gp_out = <<>>
    /\ ctl_in = <<>> /\ ctl_out = <<>> /\ cfg = <<>> /\ fl = <<>>
    /\ WorldIdle

(* Term.__init__.                                                          *)
TermInit ==
    /\ ~tm_out.made
    /\ tm_out' = [tm_out EXCEPT
           !.made = TRUE,
           !.t = IptablesTerm(1, 1, tm_in.term, tm_in.filter_name,
                              tm_in.trackstate, tm_in.filter_action, tm_in.af)]
    /\ reject_action' = IptablesTermReject(tm_in.af)
    /\ UNCHANGED <<tm_in, policy, policy0, renderers, service_map,
                   mpVars, gpVars, ctlVars, cfg, fl>>

(* The Term object and the results of str() after a str() that gave r.     *)
TermStrDone(r) ==
    tm_out' = [tm_out EXCEPT
        !.t = [@ EXCEPT !.options = r.options],
        !.strs = Append(@, [err |-> r.err, lines |-> r.lines])]

(* str(term).                                                              *)
TermStr ==
    /\ tm_out.made
    /\ Len(tm_out.strs) < MaxRenders
    /\ TermStrDone(IptablesTermStr(tm_out.t, tm_in.term, reject_action))
    /\ UNCHANGED <<tm_in, worldVars, mpVars, gpVars, ctlVars, cfg, fl>>

NextTerm == TermInit \/ TermStr

SpecTerm == InitTerm /\ [][NextTerm]_vars

(* What a packet with the source address a and the destination address b  *)
(* meets in the chain of a term: a rule matches it when its addresses do;  *)
(* the first RETURN rule that matches it takes it out of the chain.        *)
Addresses == 0..(Pow2(AddressBits) - 1)

RuleMatches(line, a, b) ==
    /\ line.src # <<>> => a \in PrefixAddresses(line.src)
    /\ line.dst # <<>> => b \in PrefixAddresses(line.dst)

IsReturnRule(line) == line.kind = "rule" /\ line.target = "-j RETURN"

IsActionRule(line) ==
    /\ line.kind = "rule"
    /\ line.target \notin {"-j RETURN", "-j LOG --log-prefix"}

ReachesAction(lines, a, b) ==
    \E k \in 1..Len(lines) :
        /\ IsActionRule(lines[k])
        /\ RuleMatches(lines[k], a, b)
        /\ \A j \in 1..(k - 1) :
              ~(IsReturnRule(lines[j]) /\ RuleMatches(lines[j], a, b))

(* C16: in the text of an iptables term no packet whose source address is  *)
(* in a prefix of source-exclude, or whose destination address is in a     *)
(* prefix of destination-exclude, gets to a rule with the action of the    *)
(* term.                                                                   *)
C16_ExcludedNeverReachAction ==
    \A n \in 1..Len(tm_out.strs) :
        tm_out.strs[n].err = NoError
        => \A a \in Addresses, b \in Addresses :
              \/ a \in AddressesOf(tm_in.term.source_address_exclude)
              \/ b \in AddressesOf(tm_in.term.destination_address_exclude)
              => ~ReachesAction(tm_out.strs[n].lines, a, b)

(* The two numbers of lines Term.__str__ estimates for a term: with        *)
(* RETURN rules for the excluded prefixes before rules for the addresses   *)
(* of the term, and with rules for the prefixes that ExcludeAddrs gives.   *)
BailoutEstimate(term) ==
    Len(term.source_address_exclude) + Len(term.destination_address_exclude)
    + OrOne(Len(term.source_address)) * OrOne(Len(term.destination_address))

ExpansionEstimate(term) ==
    OrOne(Len(TermExcluded(term.source_address, term.source_address_exclude)))
    * OrOne(Len(TermExcluded(term.destination_address,
                             term.destination_address_exclude)))

HasExcludes(term) ==
    term.source_address_exclude # <<>> \/ term.destination_address_exclude # <<>>

ReturnRulesOf(lines) == SelectSeq(lines, IsReturnRule)

(* The RETURN rules of a text are those of the bailout strategy: one for   *)
(* every excluded source prefix, then one for every excluded destination   *)
(* prefix.                                                                 *)
BailoutApplied(term, lines) ==
    LET rules == ReturnRulesOf(lines)
        ns == Len(term.source_address_exclude)
        nd == Len(term.destination_address_exclude)
    IN /\ Len(rules) = ns + nd
       /\ \A i \in 1..ns : rules[i].src = (IF term.source_address_exclude[i] = all_ips
                                           THEN <<>>
                                           ELSE term.source_address_exclude[i])
       /\ \A i \in 1..nd :
             rules[ns + i].dst = (IF term.destination_address_exclude[i] = all_ips
                                  THEN <<>>
                                  ELSE term.destination_address_exclude[i])

(* C17: for a term with excludes the text has the RETURN rules of the      *)
(* bailout strategy when that is estimated at fewer lines than the         *)
(* expansion, and no RETURN rule when the expansion is estimated at fewer  *)
(* lines or at as many.                                                    *)
C17_LowerEstimateChosen ==
    \A n \in 1..Len(tm_out.strs) :
        tm_out.strs[n].err = NoError /\ HasExcludes(tm_in.term)
        => IF BailoutEstimate(tm_in.term) < ExpansionEstimate(tm_in.term)
           THEN BailoutApplied(tm_in.term, tm_out.strs[n].lines)
           ELSE ReturnRulesOf(tm_out.strs[n].lines) = <<>>

(* An address as a rule line shows it: nothing for every address.         *)
Shown(prefix) == IF prefix = all_ips THEN <<>> ELSE prefix

ShownSet(prefixes) == {Shown(prefixes[k]) : k \in 1..Len(prefixes)}

(* The addresses the term gives for a side, as its rules show them.        *)
OriginalShown(address) == IF address = <<>> THEN {<<>>} ELSE ShownSet(address)

ActionRulesOf(lines) == SelectSeq(lines, IsActionRule)

(* The text has a RETURN rule for an excluded source prefix of the term,   *)
(* for an excluded destination prefix.                                     *)
HasSourceReturn(term, lines) ==
    \E k \in 1..Len(lines) :
        /\ IsReturnRule(lines[k])
        /\ lines[k].dst = <<>>
        /\ lines[k].src \in ShownSet(term.source_address_exclude)

HasDestinationReturn(term, lines) ==
    \E k \in 1..Len(lines) :
        /\ IsReturnRule(lines[k])
        /\ lines[k].src = <<>>
        /\ lines[k].dst \in ShownSet(term.destination_address_exclude)

(* C18: when the text of a term has a RETURN rule for an excluded prefix   *)
(* of a side, the rules with the action of the term have the addresses the *)
(* term gives for that side, not what ExcludeAddrs made of them; so rules  *)
(* with the addresses ExcludeAddrs gave come without a RETURN rule for the *)
(* side.                                                                   *)
C18_OneStrategyPerSide ==
    \A n \in 1..Len(tm_out.strs) :
        tm_out.strs[n].err = NoError
        => LET lines == tm_out.strs[n].lines
               actions == ActionRulesOf(lines)
           IN /\ HasSourceReturn(tm_in.term, lines)
                 => {actions[k].src : k \in 1..Len(actions)}
                      = OriginalShown(tm_in.term.source_address)
              /\ HasDestinationReturn(tm_in.term, lines)
                 => {actions[k].dst : k \in 1..Len(actions)}
                      = OriginalShown(tm_in.term.destination_address)

(* A text with a RETURN rule for an excluded source prefix, of a term for  *)
(* which ExcludeAddrs gave other source addresses than the term has; and   *)
(* the same term's text is the second of the instance.                     *)
C18_Witness ==
    /\ Len(tm_out.strs) = 2
    /\ tm_out.strs[2].err = NoError
    /\ HasSourceReturn(tm_in.term, tm_out.strs[2].lines)
    /\ ShownSet(TermExcluded(tm_in.term.source_address,
                             tm_in.term.source_address_exclude))
         # OriginalShown(tm_in.term.source_address)
    /\ tm_in.term.destination_address_exclude # <<>>

(* How many of the options of a rule line are the match of established    *)
(* connections.                                                            *)
EstablishedMatches(line) ==
    Len(SelectSeq(line.options, LAMBDA o : o = STATE_ESTABLISHED))

EstablishedOptions(term) ==
    SelectSeq(term.option, LAMBDA o : o \in {"established", "tcp-established"})

(* C19: the first text of a term with the options established or           *)
(* tcp-established, however many: with connection tracking every rule line *)
(* has the match `-m state --state ESTABLISHED,RELATED` exactly once;      *)
(* without it and with the protocol tcp alone the rule lines are the two   *)
(* with the TCP flags ACK/ACK and SYN,FIN,ACK,RST/RST and none has a state *)
(* match.                                                                  *)
C19_EstablishedOnce ==
    /\ tm_out.strs # <<>>
    /\ tm_out.strs[1].err = NoError
    /\ EstablishedOptions(tm_in.term) # <<>>
    => LET rules == ActionRulesOf(tm_out.strs[1].lines)
       IN /\ rules # <<>>
          /\ tm_in.trackstate
             => \A k \in 1..Len(rules) : EstablishedMatches(rules[k]) = 1
          /\ ~tm_in.trackstate /\ tm_in.term.protocol = <<"tcp">>
             => /\ [k \in 1..Len(rules) |-> rules[k].flags]
                     = <<<<{"ACK"}, {"ACK"}>>,
                         <<{"SYN", "FIN", "ACK", "RST"}, {"RST"}>>>>
                /\ \A k \in 1..Len(rules) :
                      \A o \in 1..Len(rules[k].options) :
                         ~MentionsState(rules[k].options[o])

(* The rule lines of a text that jump to LOG.                              *)
LogRulesOf(lines) ==
    SelectSeq(lines, LAMBDA l : l.kind = "rule" /\ l.target = "-j LOG --log-prefix")

(* A rule line has the clause of one port after a multiport clause.        *)
SingleAfterMultiport(line) ==
    line.sport.multi /\ ~line.dport.multi /\ line.dport.ports # <<>>

(* Every pair of a statement of sports and a statement of dports is in the *)
(* two places for port clauses of exactly one of the rules, and there is   *)
(* no other rule.                                                          *)
EveryPairOnce(rules, sports, dports) ==
    /\ Len(rules) = Len(sports) * Len(dports)
    /\ \A i \in 1..Len(sports), j \in 1..Len(dports) :
          Cardinality({k \in 1..Len(rules) :
                          {rules[k].sport, rules[k].dport} = {sports[i], dports[j]}}) = 1

(* C20: in the text of a term with source ports and destination ports no   *)
(* rule line has the clause of one port after a multiport clause, and      *)
(* every pair of a group of source ports and a group of destination ports  *)
(* is in exactly one line with the action, and in exactly one LOG line     *)
(* when the term logs and in none when it does not.                        *)
C20_PortClauses ==
    \A n \in 1..Len(tm_out.strs) :
        /\ tm_out.strs[n].err = NoError
        /\ tm_in.term.source_port # <<>>
        /\ tm_in.term.destination_port # <<>>
        => LET lines == tm_out.strs[n].lines
               sports == GeneratePortStatement(tm_in.term.source_port, "s")
               dports == GeneratePortStatement(tm_in.term.destination_port, "d")
           IN /\ \A k \in 1..Len(lines) :
                    lines[k].kind = "rule" => ~SingleAfterMultiport(lines[k])
              /\ EveryPairOnce(ActionRulesOf(lines), sports, dports)
              /\ IF tm_in.term.logging # <<>>
                 THEN EveryPairOnce(LogRulesOf(lines), sports, dports)
                 ELSE LogRulesOf(lines) = <<>>

(* The text of a term that logs has a rule line in which a multiport       *)
(* clause of source ports comes after the clause of one destination port,  *)
(* and the term has more than one group of source ports.                   *)
C20_Witness ==
    \E n \in 1..Len(tm_out.strs) :
        /\ tm_out.strs[n].err = NoError
        /\ tm_in.term.logging # <<>>
        /\ Len(GeneratePortStatement(tm_in.term.source_port, "s")) > 1
        /\ \E k \in 1..Len(tm_out.strs[n].lines) :
              LET line == tm_out.strs[n].lines[k]
              IN /\ IsActionRule(line)
                 /\ line.sport.direction = "d" /\ ~line.sport.multi
                 /\ line.dport.direction = "s" /\ line.dport.multi

----------------------------------------------------------------------------
(* The port consolidation on its own: _GeneratePortStatement is called     *)
(* once, for source ports or for destination ports, on a list of ranges.   *)

InitPorts ==
    /\ gp_in \in SeqsUpTo(PortRanges, MaxPortRanges) \ {<<>>}
    /\ gp_out = [called |-> FALSE, direction |-> "", portstrings |-> <<>>]
    /\ mp_in = <<>> /\ mp_out = <<>>
    /\ tm_in = <<>> /\ tm_out = <<>>
    /\ ctl_in = <<>> /\ ctl_out = <<>> /\ cfg = <<>> /\ fl = <<>>
    /\ WorldIdle

GPCall(direction) ==
    /\ ~gp_out.called
    /\ gp_out' = [called |-> TRUE, direction |-> direction,
                  portstrings |-> GeneratePortStatement(gp_in, direction)]
    /\ UNCHANGED <<gp_in, mp_in, mp_out, worldVars, tmVars, ctlVars, cfg, fl>>

NextPorts == \E direction \in {"s", "d"} : GPCall(direction)

SpecPorts == InitPorts /\ [][NextPorts]_vars

(* C8: the ports that the statements made for a list of ranges name are    *)
(* the ports of the ranges of the list.                                    *)
C8_PortUnionPreserved ==
    gp_out.called
    => UNION {StatementMatches(gp_out.portstrings[k]) :
                 k \in 1..Len(gp_out.portstrings)}
       = RangesMatch(gp_in)

(* The list was long enough for a multiport statement to be closed inside  *)
(* the loop and for ports to be left after it.                             *)
C8_Witness ==
    /\ gp_out.called
    /\ Len(gp_out.portstrings) >= 2
    /\ gp_out.portstrings[Len(gp_out.portstrings)].ports # <<>>
    /\ Cardinality(RangesMatch(gp_in)) >= 3

(* What a statement costs: 1 for the text of a port, 2 for the text of a   *)
(* range.                                                                  *)
RECURSIVE StatementCost(_)
StatementCost(norm_ports) ==
    IF norm_ports = <<>> THEN 0
    ELSE Len(Head(norm_ports)) + StatementCost(Tail(norm_ports))

(* C21: no statement _GeneratePortStatement makes costs more than          *)
(* max_ports, and every statement it makes names a port.                   *)
C21_StatementWithinBudget ==
    gp_out.called
    => \A k \in 1..Len(gp_out.portstrings) :
          /\ StatementCost(gp_out.portstrings[k].ports) <= max_ports
          /\ gp_out.portstrings[k].ports # <<>>

(* The half of C21 about the budget, and the half about the ports.         *)
StatementsCostAtMostBudget ==
    gp_out.called
    => \A k \in 1..Len(gp_out.portstrings) :
          StatementCost(gp_out.portstrings[k].ports) <= max_ports

StatementsNameAPort ==
    gp_out.called
    => \A k \in 1..Len(gp_out.portstrings) : gp_out.portstrings[k].ports # <<>>

----------------------------------------------------------------------------
(* Juniper: Term._MinimizePrefixes (lib/juniper.py).                       *)

MinimizePrefixes(include, exclude) ==
    LET exclude_set == SeqToSet(exclude)
        include_result == SelectSeq(include, LAMBDA ip : ip \notin exclude_set)
        exclude_result ==
            SelectSeq(exclude,
                LAMBDA exclude_prefix :
                    \E k \in 1..Len(include_result) :
                        PrefixIn(exclude_prefix, include_result[k]))
    IN [include |-> include_result, exclude |-> exclude_result]

InitMinimize ==
    /\ mp_in \in [include : SeqsUpTo(Prefixes, MaxPrefixes),
                  exclude : SeqsUpTo(Prefixes, MaxPrefixes)]
    /\ mp_out = [called |-> FALSE, include |-> <<>>, exclude |-> <<>>]
    /\ gp_in = <<>> /\ gp_out = <<>>
    /\ tm_in = <<>> /\ tm_out = <<>>
    /\ ctl_in = <<>> /\ ctl_out = <<>> /\ cfg = <<>> /\ fl = <<>>
    /\ WorldIdle

MPCall ==
    /\ ~mp_out.called
    /\ mp_out' = [called |-> TRUE,
                  include |-> MinimizePrefixes(mp_in.include, mp_in.exclude).include,
                  exclude |-> MinimizePrefixes(mp_in.include, mp_in.exclude).exclude]
    /\ UNCHANGED <<mp_in, gp_in, gp_out, worldVars, tmVars, ctlVars, cfg, fl>>

NextMinimize == MPCall

SpecMinimize == InitMinimize /\ [][NextMinimize]_vars

(* C7: the addresses of the prefixes _MinimizePrefixes lists, without the  *)
(* addresses of the prefixes it lists as 'except', are the addresses of    *)
(* include without the addresses of exclude; and it lists no more 'except' *)
(* prefixes than exclude has.                                              *)
C7_MinimizeKeepsAddressSet ==
    mp_out.called
    => /\ AddressesOf(mp_out.include) \ AddressesOf(mp_out.exclude)
          = AddressesOf(mp_in.include) \ AddressesOf(mp_in.exclude)
       /\ Len(mp_out.exclude) <= Len(mp_in.exclude)

(* The include prefixes that have no exact match in exclude.               *)
Surviving(include, exclude) ==
    SelectSeq(include, LAMBDA ip : ip \notin SeqToSet(exclude))

(* C22: the exclude list _MinimizePrefixes returns holds, in the order of  *)
(* exclude, the exclude prefixes that are equal to no include prefix and   *)
(* lie in an include prefix that has no exact match in exclude.            *)
C22_ExcludeResultExact ==
    mp_out.called
    => mp_out.exclude
         = SelectSeq(mp_in.exclude,
               LAMBDA e :
                   /\ e \notin SeqToSet(mp_in.include)
                   /\ \E k \in 1..Len(Surviving(mp_in.include, mp_in.exclude)) :
                         PrefixIn(e, Surviving(mp_in.include, mp_in.exclude)[k]))

(* What the code keeps of C22: the exclude prefixes that lie in a          *)
(* surviving include prefix, in their order, equal to an include prefix or *)
(* not.                                                                    *)
ExcludeResultInSurviving ==
    mp_out.called
    => mp_out.exclude
         = SelectSeq(mp_in.exclude,
               LAMBDA e :
                   \E k \in 1..Len(Surviving(mp_in.include, mp_in.exclude)) :
                      PrefixIn(e, Surviving(mp_in.include, mp_in.exclude)[k]))

----------------------------------------------------------------------------
(* Juniper: a Config object under Append and str() calls                   *)
(* (lib/juniper.py).  cfg.calls keeps, for every Append call, its line,    *)
(* its verbatim flag and the indent the object had before the call.        *)

MaxAppends == 4        \* Append calls on one Config object

(* The lines handed to Append: an opening line ('term a {'), a closing     *)
(* line ('}'), a statement ('log;') and comment lines whose text ends in   *)
(* '}', in ' {' and in '{' without a space before it.                      *)
ConfigLines ==
    {Open(<<"term", "a">>), Close, Stmt(<<"log">>),
     Comment(<<"x }">>), Comment(<<"y {">>), Comment(<<"z{">>)}

InitConfig ==
    /\ cfg \in [config : {Config(0), Config(DEFAULT_INDENT)}, calls : {<<>>}, str : {<<>>}]
    /\ fl = <<>>
    /\ mp_in = <<>> /\ mp_out = <<>>
    /\ gp_in = <<>> /\ gp_out = <<>>
    /\ tm_in = <<>> /\ tm_out = <<>>
    /\ ctl_in = <<>> /\ ctl_out = <<>>
    /\ WorldIdle

(* config.Append(line, verbatim); after the call that raised, the caller   *)
(* makes no further call.                                                  *)
ConfigAppendCall(line, verbatim) ==
    /\ cfg.config.err = NoError
    /\ Len(cfg.calls) < MaxAppends
    /\ cfg' = [cfg EXCEPT
                  !.config = ConfigAppend(cfg.config, line, verbatim),
                  !.calls = Append(@, [line |-> line, verbatim |-> verbatim,
                                       before |-> cfg.config.indent])]
    /\ UNCHANGED <<worldVars, mpVars, gpVars, tmVars, ctlVars, fl>>

(* str(config)                                                             *)
ConfigStrCall ==
    /\ cfg.config.err = NoError
    /\ cfg.str = <<>>
    /\ cfg' = [cfg EXCEPT !.str = <<ConfigStr(cfg.config)>>]
    /\ UNCHANGED <<worldVars, mpVars, gpVars, tmVars, ctlVars, fl>>

NextConfig ==
    \/ \E line \in ConfigLines, verbatim \in BOOLEAN : ConfigAppendCall(line, verbatim)
    \/ ConfigStrCall

SpecConfig == InitConfig /\ [][NextConfig]_vars

(* A line whose text ends in an opening brace, with a space before the     *)
(* brace or without one.                                                   *)
EndsInOpeningBrace(line) ==
    \/ line.kind = "open"
    \/ line.kind = "comment" /\ line.words # <<>>
          /\ LastWord(line.words) \in {"y {", "z{"}

RECURSIVE BlocksOpen(_, _)
BlocksOpen(Opens(_), calls) ==
    IF calls = <<>> THEN 0
    ELSE BlocksOpen(Opens, SubSeq(calls, 1, Len(calls) - 1))
           + (LET c == calls[Len(calls)]
              IN IF c.verbatim THEN 0
                 ELSE IF Opens(c.line) THEN 1
                 ELSE IF EndsWithClose(c.line) THEN -1 ELSE 0)

(* The indent after the k-th call.                                         *)
IndentAfter(k) ==
    IF k < Len(cfg.calls) THEN cfg.calls[k + 1].before ELSE cfg.config.indent

(* The indent discipline of Append, for lines that open a block when       *)
(* Opens says so.                                                          *)
IndentDiscipline(Opens(_)) ==
    /\ cfg.config.err = NoError
         => /\ cfg.config.indent
                 = cfg.config.initial_indent + TABSTOP * BlocksOpen(Opens, cfg.calls)
            /\ cfg.config.indent >= cfg.config.initial_indent
            /\ Len(cfg.config.lines) = Len(cfg.calls)
            /\ \A k \in 1..Len(cfg.calls) :
                  LET c == cfg.calls[k]
                  IN ~c.verbatim =>
                       /\ Opens(c.line)
                            => /\ cfg.config.lines[k].indent = c.before
                               /\ IndentAfter(k) = c.before + TABSTOP
                       /\ EndsWithClose(c.line)
                            => /\ cfg.config.lines[k].indent = c.before - TABSTOP
                               /\ IndentAfter(k) = c.before - TABSTOP
    /\ \A k \in 1..Len(cfg.calls) :
          LET c == cfg.calls[k]
          IN (/\ ~c.verbatim
              /\ EndsWithClose(c.line)
              /\ c.before - TABSTOP < cfg.config.initial_indent)
             => k = Len(cfg.calls) /\ cfg.config.err = "JuniperIndentationError"

(* C23: after successful non-verbatim Append calls the indent is the       *)
(* initial indent plus one tab-stop per block opened and not yet closed    *)
(* and never below the initial indent; a line ending in an opening brace   *)
(* is emitted at the current indent and raises it afterwards, a line       *)
(* ending in a closing brace lowers it first and is emitted at the lowered *)
(* indent, and an Append that would lower it below the initial indent      *)
(* raises JuniperIndentationError.                                         *)
C23_IndentDiscipline == IndentDiscipline(EndsInOpeningBrace)

(* What holds of C23: the same discipline for the lines that end in ' {',  *)
(* a space and an opening brace.                                           *)
IndentDisciplineSpaceBrace == IndentDiscipline(EndsWithOpen)

----------------------------------------------------------------------------
(* Juniper: policies whose comments and owners are any text.               *)

(* A text without a brace at its end, one that ends in '}' and one that    *)
(* ends in ' {'.                                                           *)
UserTexts == {"plain", "x }", "y {"}

CommentsOf(texts) == {<<>>} \cup {<<<<text>>>> : text \in texts}

CommentPolicies ==
    {<<MkFilter([H4 EXCEPT !.comment = header_comment],
                <<[Accept("a") EXCEPT !.comment = comment, !.owner = owner]>>)>> :
        header_comment \in CommentsOf(UserTexts),
        comment \in CommentsOf(UserTexts),
        owner \in {""} \cup UserTexts}

InitComments ==
    /\ policy \in {<<p>> : p \in CommentPolicies}
    /\ WorldStart

SpecComments == InitComments /\ [][NextOrder]_vars

(* C24: no str() of a Juniper renderer made of an accepted policy raises   *)
(* JuniperIndentationError, whatever the comments and the owner are.       *)
C24_NoIndentationError ==
    \A i \in 1..Len(renderers) :
        renderers[i].platform = PLATFORM_JUNIPER
        => \A k \in 1..Len(renderers[i].renders) :
              renderers[i].renders[k].err # "JuniperIndentationError"

----------------------------------------------------------------------------
(* Palo Alto: the tagging of the flows of a term                           *)
(* (capirca/lib/paloaltofw.py), for the address lists the term has after   *)
(* the exclusions.                                                         *)

MaxAddresses == 2      \* addresses in each list of a Palo Alto term

PanAddresses ==
    {[version |-> 4, prefix |-> <<0, 0>>, parent_token |-> "NET_A"],
     [version |-> 4, prefix |-> <<0, 1>>, parent_token |-> "NET_B"],
     [version |-> 6, prefix |-> <<0, 0>>, parent_token |-> "NET_C"]}

InitFlows ==
    /\ fl \in [source_address : SeqsUpTo(PanAddresses, MaxAddresses),
               destination_address : SeqsUpTo(PanAddresses, MaxAddresses),
               called : {FALSE}, flows : {<<>>}]
    /\ mp_in = <<>> /\ mp_out = <<>>
    /\ gp_in = <<>> /\ gp_out = <<>>
    /\ tm_in = <<>> /\ tm_out = <<>>
    /\ ctl_in = <<>> /\ ctl_out = <<>> /\ cfg = <<>>
    /\ WorldIdle

FlowsCall ==
    /\ ~fl.called
    /\ fl' = [fl EXCEPT !.called = TRUE,
                        !.flows = Flows(fl.source_address, fl.destination_address)]
    /\ UNCHANGED <<worldVars, mpVars, gpVars, tmVars, ctlVars, cfg>>

NextFlows == FlowsCall

SpecFlows == InitFlows /\ [][NextFlows]_vars

(* The list is empty or holds an address of version v.                     *)
SideOf(addresses, v) ==
    addresses = <<>> \/ \E i \in 1..Len(addresses) : addresses[i].version = v

FlowTagsOf(v) ==
    {FlowTag(v, kind) : kind \in {"ip", "src-only", "dst-only", "only"}}

(* C25: for v in {4, 6}, with S the source side and D the destination side *)
(* of version v, the flows hold 'ipv-ipv' iff S and D, 'ipv-src-only' and  *)
(* 'ipv-only' iff S and not D, 'ipv-dst-only' and 'ipv-only' iff D and not *)
(* S, and no tag of v otherwise; 'ipv-ipv' and 'ipv-only' are never both   *)
(* there.                                                                  *)
C25_FlowTags ==
    fl.called =>
        \A v \in {4, 6} :
            LET S == SideOf(fl.source_address, v)
                D == SideOf(fl.destination_address, v)
                tags == SeqToSet(fl.flows) \cap FlowTagsOf(v)
            IN /\ S /\ D => tags = {FlowTag(v, "ip")}
               /\ S /\ ~D => tags = {FlowTag(v, "src-only"), FlowTag(v, "only")}
               /\ D /\ ~S => tags = {FlowTag(v, "dst-only"), FlowTag(v, "only")}
               /\ ~S /\ ~D => tags = {}
               /\ ~(FlowTag(v, "ip") \in tags /\ FlowTag(v, "only") \in tags)

(* A source list of version 4 alone against a destination list of version  *)
(* 6 alone: each version is on one side only.                              *)
C25_Witness ==
    /\ fl.called
    /\ fl.source_address # <<>> /\ fl.destination_address # <<>>
    /\ SideOf(fl.source_address, 4) /\ ~SideOf(fl.destination_address, 4)
    /\ SideOf(fl.destination_address, 6) /\ ~SideOf(fl.source_address, 6)
    /\ fl.flows = <<"ip4-src-only", "ip4-only", "ip6-dst-only", "ip6-only">>

----------------------------------------------------------------------------
(* Palo Alto: policies of one filter whose terms have addresses, exclude   *)
(* lists and icmp types.  The filters name paloalto alone as platform.     *)

PanHeader(af) == [MkHeader("INPUT", "f1", af) EXCEPT !.platforms = {PLATFORM_PALOALTO}]

NET_A == [version |-> 4, prefix |-> <<0, 0>>, parent_token |-> "NET_A"]
NET_B == [version |-> 4, prefix |-> <<0, 1>>, parent_token |-> "NET_B"]
NET_C == [version |-> 6, prefix |-> <<0, 0>>, parent_token |-> "NET_C"]

IcmpTypeTerm(name, protocol, icmp_type) ==
    [MkTerm(name, "accept") EXCEPT !.protocol = <<protocol>>, !.icmp_type = icmp_type]

SourceTerm(name, source_address, source_address_exclude) ==
    [MkTerm(name, "accept") EXCEPT !.protocol = <<"tcp">>,
                                   !.source_address = source_address,
                                   !.source_address_exclude = source_address_exclude]

DestinationTerm(name, destination_address, destination_address_exclude) ==
    [MkTerm(name, "accept") EXCEPT !.protocol = <<"tcp">>,
        !.destination_address = destination_address,
        !.destination_address_exclude = destination_address_exclude]

PanTerms(name) ==
    {IcmpTypeTerm(name, "icmp", <<>>), IcmpTypeTerm(name, "icmp", <<"echo-request">>),
     IcmpTypeTerm(name, "icmp", <<"echo-request", "echo-reply">>),
     IcmpTypeTerm(name, "icmpv6", <<"echo-request">>),
     SourceTerm(name, <<NET_A>>, <<>>), SourceTerm(name, <<NET_A>>, <<NET_B>>),
     SourceTerm(name, <<NET_B>>, <<NET_A>>), SourceTerm(name, <<NET_B, NET_C>>, <<NET_B>>),
     DestinationTerm(name, <<NET_C>>, <<>>), DestinationTerm(name, <<NET_B>>, <<NET_B>>),
     DestinationTerm(name, <<NET_A, NET_C>>, <<NET_C>>)}

PanPolicies ==
    {<<MkFilter(PanHeader(af), <<a, b>>)>> :
        af \in {"inet", "inet6", "mixed"}, a \in PanTerms("a"), b \in PanTerms("b")}

InitPan ==
    /\ policy \in {<<p>> : p \in PanPolicies}
    /\ WorldStart

SpecPan == InitPan /\ [][NextOrder]_vars

(* The rule entries of the texts the Palo Alto renderers rendered.         *)
PanRules ==
    UNION {UNION {{renderers[i].renders[k].target[n] :
                      n \in {m \in 1..Len(renderers[i].renders[k].target) :
                                renderers[i].renders[k].target[m].kind = "rule"}} :
                  k \in 1..Len(renderers[i].renders)} :
           i \in {j \in 1..Len(renderers) : renderers[j].platform = PLATFORM_PALOALTO}}

(* The term of the policy, as the parser built it, that a rule is made of. *)
DeclaredTerm(rule) ==
    LET terms == policy0[1][1].terms
    IN terms[CHOOSE ti \in 1..Len(terms) : terms[ti].name = rule.name]

IsIcmpTypeTerm(term) ==
    /\ Contains(term.protocol, "icmp") \/ Contains(term.protocol, "icmpv6")
    /\ term.icmp_type # <<>>

(* C26: a rule of a term with protocol icmp or icmpv6 and icmp types has   *)
(* among its application members a custom ICMP application of each type    *)
(* and is not rendered with the application 'any', whatever terms came     *)
(* before it.                                                              *)
C26_IcmpApplicationsReferenced ==
    \A rule \in PanRules :
        IsIcmpTypeTerm(DeclaredTerm(rule))
        => /\ rule.application # <<"any">>
           /\ \A n \in 1..Len(DeclaredTerm(rule).icmp_type) :
                 \/ Contains(rule.application,
                             IcmpAppName("icmp", DeclaredTerm(rule).icmp_type[n]))
                 \/ Contains(rule.application,
                             IcmpAppName("icmpv6", DeclaredTerm(rule).icmp_type[n]))

(* What holds of C26: the rule of the first term of the policy that names  *)
(* a type has the applications of its types.                               *)
FirstIcmpRuleReferences ==
    \A rule \in PanRules :
        (/\ rule.name = "a"
         /\ IsIcmpTypeTerm(DeclaredTerm(rule)))
        => /\ rule.application # <<"any">>
           /\ \A n \in 1..Len(DeclaredTerm(rule).icmp_type) :
                 \/ Contains(rule.application,
                             IcmpAppName("icmp", DeclaredTerm(rule).icmp_type[n]))
                 \/ Contains(rule.application,
                             IcmpAppName("icmpv6", DeclaredTerm(rule).icmp_type[n]))

(* C27: a rule of a term that declares source addresses is not rendered    *)
(* with the source 'any', and a rule of a term that declares destination   *)
(* addresses is not rendered with the destination 'any'.                   *)
C27_DeclaredSideNeverAny ==
    \A rule \in PanRules :
        /\ DeclaredTerm(rule).source_address # <<>> => rule.source # <<"any">>
        /\ DeclaredTerm(rule).destination_address # <<>>
              => rule.destination # <<"any">>

(* What holds of C27: a rule is rendered with 'any' on a side whose        *)
(* declared list is not empty only when the exclude list covers the list.  *)
AnyOnlyWhenAllExcluded ==
    \A rule \in PanRules :
        /\ (DeclaredTerm(rule).source_address # <<>> /\ rule.source = <<"any">>)
              => WithoutExcluded(DeclaredTerm(rule)).source_address = <<>>
        /\ (DeclaredTerm(rule).destination_address # <<>>
              /\ rule.destination = <<"any">>)
              => WithoutExcluded(DeclaredTerm(rule)).destination_address = <<>>

----------------------------------------------------------------------------
(* iptables: policies of two filters whose target lines have options.      *)

OptionHeader(fname, words) ==
    [MkHeader(words[1], fname, "inet") EXCEPT !.target.iptables = words]

HeaderPolicies ==
    {<<MkFilter(OptionHeader("f1", first), <<TcpPort("a", 80)>>),
       MkFilter(OptionHeader("f2", second), <<TcpPort("b", 22)>>)>> :
        first \in {<<"INPUT">>, <<"INPUT", "DROP">>, <<"INPUT", "nostate">>,
                   <<"INPUT", "ACCEPT", "nostate">>, <<"FORWARD">>,
                   <<"INPUT", "inet6">>},
        second \in {<<"OUTPUT">>, <<"OUTPUT", "ACCEPT">>, <<"OUTPUT", "nostate">>,
                    <<"OUTPUT", "inet6">>}}

InitHeaders ==
    /\ policy \in {<<p>> : p \in HeaderPolicies}
    /\ WorldStart

SpecHeaders == InitHeaders /\ [][NextOrder]_vars

(* The texts the iptables renderers rendered.                              *)
IptablesTexts ==
    UNION {{renderers[i].renders[k].target : k \in 1..Len(renderers[i].renders)} :
           i \in {j \in 1..Len(renderers) : renderers[j].platform = PLATFORM_IPTABLES}}

(* The default action the words of a target line name: the last of ACCEPT  *)
(* and DROP among the options, DROP for the FORWARD filter that names       *)
(* none, and none otherwise.                                               *)
OwnDefaultAction(words) ==
    LET named == SelectSeq(Tail(words), LAMBDA w : w \in {"ACCEPT", "DROP"})
    IN IF named # <<>> THEN named[Len(named)]
       ELSE IF words[1] = "FORWARD" THEN "DROP" ELSE ""

LinesOf(text, kind) == {text[n] : n \in {m \in 1..Len(text) : text[m].kind = kind}}

(* The default-action lines of the filter are those its own target line    *)
(* names.                                                                  *)
OwnDefaultActionLine(text, words) ==
    {line.action : line \in {l \in LinesOf(text, "default_action") : l.chain = words[1]}}
        = IF OwnDefaultAction(words) = "" THEN {} ELSE {OwnDefaultAction(words)}

(* The rules of the filter's terms track the state of the connection       *)
(* unless its own target line says nostate.                                *)
OwnTracking(text, words) ==
    \A line \in LinesOf(text, "rule") :
        line.chain[1] = FirstChar(words[1])
        => (Contains(line.options, STATE_NEW) <=> ~Contains(Tail(words), "nostate"))

(* C28: the default-action line of a filter and the connection tracking of *)
(* its terms are those of the filter's own target line, whatever the       *)
(* filters before it say.                                                  *)
C28_OwnHeaderOnly ==
    \A text \in IptablesTexts :
        \A fi \in 1..Len(policy0[1]) :
            /\ OwnDefaultActionLine(text, policy0[1][fi].header.target.iptables)
            /\ OwnTracking(text, policy0[1][fi].header.target.iptables)

(* The two halves of C28, each for the second filter alone.                *)
SecondFilterOwnDefaultAction ==
    \A text \in IptablesTexts :
        OwnDefaultActionLine(text, policy0[1][2].header.target.iptables)

SecondFilterOwnTracking ==
    \A text \in IptablesTexts :
        OwnTracking(text, policy0[1][2].header.target.iptables)

(* What holds of C28: the first filter of a policy has the default-action  *)
(* line and the tracking of its own target line.                           *)
FirstFilterOwnHeader ==
    \A text \in IptablesTexts :
        /\ OwnDefaultActionLine(text, policy0[1][1].header.target.iptables)
        /\ OwnTracking(text, policy0[1][1].header.target.iptables)

----------------------------------------------------------------------------
(* iptables: policies whose terms reject, in filters of both address       *)
(* families (INPUT inet and OUTPUT inet6).                                 *)

Reject(name) == MkTerm(name, "reject")

RejectPolicies ==
    {<<<<MkFilter(H4, <<Reject("a")>>), MkFilter(H6, <<Reject("b")>>)>>,
       <<MkFilter(H4, <<Reject("c")>>)>>>>,
     <<<<MkFilter(H6, <<Reject("a")>>), MkFilter(H4, <<Reject("b")>>)>>,
       <<MkFilter(H6, <<Reject("c")>>)>>>>,
     <<<<MkFilter(H4, <<Reject("a")>>)>>, <<MkFilter(H6, <<Reject("b")>>)>>>>,
     <<<<MkFilter(H4, <<Reject("a"), Accept("b")>>)>>,
       <<MkFilter(H4, <<Reject("c")>>)>>>>}

InitReject ==
    /\ policy \in RejectPolicies
    /\ WorldStart

SpecReject == InitReject /\ [][Next]_vars

(* The rules that reject, of the terms of the INPUT filters (inet) and of   *)
(* the OUTPUT filters (inet6).                                             *)
RejectRules(text, chain) ==
    {line \in LinesOf(text, "rule") :
        /\ line.chain[1] = FirstChar(chain)
        /\ line.target \in {REJECT_INET, REJECT_INET6}}

(* C29: a term that rejects is rendered with icmp-host-prohibited in an    *)
(* inet filter and with adm-prohibited in an inet6 filter, whatever terms, *)
(* filters and renderers were constructed before.                          *)
C29_RejectOfOwnFamily ==
    \A text \in IptablesTexts :
        /\ \A line \in RejectRules(text, "INPUT") : line.target = REJECT_INET
        /\ \A line \in RejectRules(text, "OUTPUT") : line.target = REJECT_INET6

----------------------------------------------------------------------------
(* iptables: policies of one filter whose terms have names that            *)
(* _CheckTermLength abbreviates, with the option truncatenames and without *)
(* it.  The filters name iptables alone as platform.                       *)

NameHeader(words) ==
    [MkHeader("INPUT", "f1", "inet") EXCEPT !.platforms = {PLATFORM_IPTABLES},
                                            !.target.iptables = words]

Bogons == <<"b", "o", "g", "o", "n", "s">>
Bogon == <<"b", "o", "g", "o", "n">>
Established == <<"e", "s", "t", "a", "b", "l", "i", "s", "h", "e", "d">>
Unreachable == <<"u", "n", "r", "e", "a", "c", "h", "a", "b", "l", "e">>
Terminating == <<"t", "e", "r", "m", "i", "n", "a", "t", "i", "n", "g">>

(* bogonsestablishedunreachable, bogonestablishedunreachable,              *)
(* establishedunreachablebogons, ESTunreachableBGN, x and                  *)
(* terminatingterminatingterminating                                       *)
TermNames ==
    {Bogons \o Established \o Unreachable,
     Bogon \o Established \o Unreachable,
     Established \o Unreachable \o Bogons,
     <<"E", "S", "T">> \o Unreachable \o <<"B", "G", "N">>,
     <<"x">>,
     Terminating \o Terminating \o Terminating}

NamePolicies ==
    {<<MkFilter(NameHeader(words), <<Accept(first), Accept(second)>>)>> :
        words \in {<<"INPUT">>, <<"INPUT", "truncatenames">>},
        first \in TermNames, second \in TermNames}

InitNames ==
    /\ policy \in {<<p>> : p \in NamePolicies}
    /\ WorldStart

SpecNames == InitNames /\ [][NextOrder]_vars

(* The chains that a text makes, in the order of the text.                 *)
NewChains(text) ==
    SelectSeq(text, LAMBDA line : line.kind = "new_chain")

(* C30: the chain names of the terms of one filter of an accepted policy   *)
(* are pairwise distinct.                                                  *)
C30_ChainNamesDistinct ==
    \A text \in IptablesTexts :
        \A m, n \in 1..Len(NewChains(text)) :
            m # n => NewChains(text)[m].chain # NewChains(text)[n].chain

(* What holds of C30: the chain names are distinct in a filter without the *)
(* option truncatenames.                                                   *)
ChainNamesDistinctUntruncated ==
    ~Contains(policy0[1][1].header.target.iptables, "truncatenames")
    => \A text \in IptablesTexts :
          \A m, n \in 1..Len(NewChains(text)) :
              m # n => NewChains(text)[m].chain # NewChains(text)[n].chain

====
